---------------------------- MODULE Spec2Model ----------------------------
(***************************************************************************)
(* A model of the scoring core of SyndrumNET (src/src/syndrumnet): the     *)
(* set-to-set network distances, the separation score, the topology        *)
(* classifier TQAB, the z-score normalisation, the proximity score PQAB    *)
(* and the SynergyPredictor that composes them; and of what surrounds the  *)
(* core: the pipeline script, NetworkBuilder.build, merge_configs and      *)
(* DataDownloader.download_file.                                           *)
(*                                                                         *)
(* Conventions.                                                            *)
(*  - A Python float is modelled as an exact rational <<n, d>> in lowest   *)
(*    terms with d > 0; rounding is outside the model.  Every sum the code *)
(*    forms over distances is a sum of integer-valued floats, so it is     *)
(*    exact in the code as well.                                           *)
(*  - A call that may raise returns [ok |-> TRUE, val |-> v] or            *)
(*    [ok |-> FALSE, exc |-> "<exception class>"].                         *)
(*  - Function bodies are modelled as they execute; the annotations of the *)
(*    signatures are not evaluated (as under deferred annotations).        *)
(*  - Genes are integers; a graph is [nodes, edges] with every edge a      *)
(*    two-element set of nodes (networkx.Graph without self-loops).        *)
(*  - network is the graph of the run, predictor the fields of a          *)
(*    SynergyPredictor (left as constructed by the specifications of      *)
(*    single function calls), call the latest call and its outcome, or     *)
(*    the frame of a call modelled step by step, files the file system.    *)
(***************************************************************************)
EXTENDS Integers, Sequences, FiniteSets, TLC

VARIABLES network, predictor, call, files

vars == <<network, predictor, call, files>>

\* The file system with no file: files is a function from paths to contents.
NoFiles == <<>>

\* Number of gene identifiers of the exhaustively enumerated graphs.
NumGenes == 3

(***************************************************************************)
(* Exact rational arithmetic (the model of float arithmetic).              *)
(***************************************************************************)
Abs(x) == IF x < 0 THEN -x ELSE x

RECURSIVE Gcd(_, _)
Gcd(a, b) == IF b = 0 THEN a ELSE Gcd(b, a % b)

\* The rational n/d (d # 0) in lowest terms with a positive denominator.
Rat(n, d) ==
  LET g == Gcd(Abs(n), Abs(d))
      s == IF d < 0 THEN -1 ELSE 1
  IN  <<(s * n) \div g, (s * d) \div g>>

RInt(k) == <<k, 1>>
RAdd(a, b) == Rat(a[1] * b[2] + b[1] * a[2], a[2] * b[2])
RNeg(a) == <<-a[1], a[2]>>
RSub(a, b) == RAdd(a, RNeg(b))
RMul(a, b) == Rat(a[1] * b[1], a[2] * b[2])
\* a / b for b # 0
RDiv(a, b) == Rat(a[1] * b[2], a[2] * b[1])
RAbs(a) == <<Abs(a[1]), a[2]>>
RLt(a, b) == a[1] * b[2] < b[1] * a[2]
RLe(a, b) == a[1] * b[2] <= b[1] * a[2]

\* -1, 0 or 1.
RSign(a) == IF a[1] < 0 THEN -1 ELSE IF a[1] = 0 THEN 0 ELSE 1

(***************************************************************************)
(* Floats that are not rational (a z-score divides by a square root): a    *)
(* real is a finite sum of terms q * sqrt(r), kept as the function from    *)
(* the square-free radicands r >= 1 to their non-zero rational             *)
(* coefficients q.  Two reals are equal exactly when these functions are.  *)
(***************************************************************************)
RealZero == [r \in {} |-> RInt(0)]
RealOfRat(q) == IF q[1] = 0 THEN RealZero ELSE [r \in {1} |-> q]

RealCoef(x, r) == IF r \in DOMAIN x THEN x[r] ELSE RInt(0)

RealAdd(x, y) ==
  LET c(r) == RAdd(RealCoef(x, r), RealCoef(y, r))
  IN  [r \in {t \in DOMAIN x \cup DOMAIN y : c(t)[1] # 0} |-> c(r)]

\* q * x for a rational q.
RealScale(x, q) == IF q[1] = 0 THEN RealZero ELSE [r \in DOMAIN x |-> RMul(x[r], q)]

RealNeg(x) == RealScale(x, RInt(-1))

\* n = k * k * r with r square-free, by trial division from d on:
\* <<k, r>> times what was split off before.
RECURSIVE SquareSplit(_, _, _, _)
SquareSplit(n, d, k, r) ==
  IF n = 1 THEN <<k, r>>
  ELSE IF d * d > n THEN <<k, r * n>>
  ELSE IF n % (d * d) = 0 THEN SquareSplit(n \div (d * d), d, k * d, r)
  ELSE IF n % d = 0 THEN SquareSplit(n \div d, d + 1, k, r * d)
  ELSE SquareSplit(n, d + 1, k, r)

\* 1 / sqrt(v) for a rational v = p/q > 0: sqrt(p q) / p.
RealInvSqrt(v) ==
  LET kr == SquareSplit(v[1] * v[2], 2, 1, 1)
  IN  [r \in {kr[2]} |-> Rat(kr[1], v[1])]

\* The sign of a real of at most one term.
RealSign(x) == IF DOMAIN x = {} THEN 0 ELSE RSign(x[CHOOSE r \in DOMAIN x : TRUE])

\* The square of a real of at most one term, a rational.
RealSquare(x) ==
  IF DOMAIN x = {} THEN RInt(0)
  ELSE LET r == CHOOSE t \in DOMAIN x : TRUE
       IN  RMul(RMul(x[r], x[r]), RInt(r))

\* floor(sqrt(n)) for lo * lo <= n < (hi + 1) * (hi + 1), by bisection.
RECURSIVE IsqrtIn(_, _, _)
IsqrtIn(n, lo, hi) ==
  IF lo = hi THEN lo
  ELSE LET mid == (lo + hi + 1) \div 2
       IN  IF mid * mid <= n THEN IsqrtIn(n, mid, hi) ELSE IsqrtIn(n, lo, mid - 1)

Isqrt(n) == IsqrtIn(n, 0, n)

RECURSIVE RSumOver(_, _)
RSumOver(f, D) ==
  IF D = {} THEN RInt(0)
  ELSE LET d == CHOOSE x \in D : TRUE
       IN  RAdd(f[d], RSumOver(f, D \ {d}))

\* The sign of a real: sqrt(r) lies between a/S and (a+1)/S for
\* a = floor(S * sqrt(r)), which encloses the real between two rationals;
\* S grows tenfold until they have the same sign.  A real with a term is not
\* zero, so this ends.
RECURSIVE RealSignAt(_, _)
RealSignAt(x, S) ==
  LET lo(r) == IF r = 1 THEN RInt(1) ELSE Rat(Isqrt(r * S * S), S)
      hi(r) == IF r = 1 THEN RInt(1) ELSE Rat(Isqrt(r * S * S) + 1, S)
      least == [r \in DOMAIN x |->
                  RMul(x[r], IF x[r][1] > 0 THEN lo(r) ELSE hi(r))]
      most == [r \in DOMAIN x |->
                  RMul(x[r], IF x[r][1] > 0 THEN hi(r) ELSE lo(r))]
  IN  IF RSumOver(least, DOMAIN x)[1] > 0 THEN 1
      ELSE IF RSumOver(most, DOMAIN x)[1] < 0 THEN -1
      ELSE RealSignAt(x, 10 * S)

RealSignOf(x) == IF DOMAIN x = {} THEN 0 ELSE RealSignAt(x, 10)

\* x < y
RealLt(x, y) == RealSignOf(RealAdd(x, RealNeg(y))) = -1

(***************************************************************************)
(* Graphs.                                                                 *)
(***************************************************************************)
Genes == 1..NumGenes

Pairs(V) == {e \in SUBSET V : Cardinality(e) = 2}

Degree(G, v) == Cardinality({e \in G.edges : v \in e})

\* Every graph on at most NumGenes nodes, up to the naming of its nodes: the
\* nodes are 1..n and are numbered by non-increasing degree (every graph has
\* such a numbering).  The genes n+1..NumGenes are not in the graph.
GenericGraphs ==
  {G \in UNION {{[nodes |-> 1..n, edges |-> E] : E \in SUBSET Pairs(1..n)} :
                 n \in 0..NumGenes} :
     \A v \in G.nodes, w \in G.nodes : v < w => Degree(G, v) >= Degree(G, w)}

\* nx.Graph().add_edges_from of the path v1 - v2 - ... - vn.
PathGraph(n) == [nodes |-> 1..n, edges |-> {{i, i + 1} : i \in 1..(n - 1)}]

\* tests/test_distances.py test_shortest_path_distance: A-B-C-D as 1-2-3-4.
Path4 == PathGraph(4)

\* Scenario S1: the path A-B-C-D-E as 1-2-3-4-5.
Path5 == PathGraph(5)

\* Scenario S6: S1 with the isolated vertex Z (6) added.
Path5Z == [nodes |-> 1..6, edges |-> PathGraph(5).edges]

\* tests/test_distances.py test_separation_score and scenario S2:
\* A1, A2, A3 = 1, 2, 3 and B1, B2, B3 = 4, 5, 6, bridged by A1 - B1.
TwoTriangles ==
  [nodes |-> 1..6,
   edges |-> {{1, 2}, {2, 3}, {3, 1}, {4, 5}, {5, 6}, {6, 4}, {1, 4}}]

\* The gene sets the scenarios are called with.
ScenarioPool(G) ==
  CASE G = Path4 -> {{1}, {4}, {2, 3}}
    [] G = Path5 -> {{1}, {5}, {2}, {1, 5}, {3, 4}}
    [] G = Path5Z -> {{6}, {5}, {1, 6}, {7}}
    [] G = TwoTriangles -> {{1, 2, 3}, {4, 5, 6}, {2, 5}, {3}, {6}}

ScenarioGraphs == {Path4, Path5, Path5Z, TwoTriangles}

Graphs == GenericGraphs \cup ScenarioGraphs

\* The gene sets a function is called with on graph G.
ModulePool(G) == IF G \in ScenarioGraphs THEN ScenarioPool(G) ELSE SUBSET Genes

(***************************************************************************)
(* Results of calls.                                                       *)
(***************************************************************************)
Ok(v) == [ok |-> TRUE, val |-> v]
Raise(e) == [ok |-> FALSE, exc |-> e]

(***************************************************************************)
(* metrics/distances.py                                                    *)
(***************************************************************************)
\* The default of the parameter infinity_value.
infinity_value == 1000

\* One breadth-first level of nx.shortest_path_length: frontier holds the
\* nodes at distance k from the source, seen the nodes at distance <= k.
RECURSIVE BfsLevel(_, _, _, _, _)
BfsLevel(G, frontier, seen, target, k) ==
  IF target \in frontier THEN Ok(k)
  ELSE LET next == {u \in G.nodes \ seen : \E v \in frontier : {u, v} \in G.edges}
       IN  IF next = {} THEN Raise("NetworkXNoPath")
           ELSE BfsLevel(G, next, seen \cup next, target, k + 1)

\* nx.shortest_path_length(G, source, target) in an unweighted graph.
shortest_path_length(G, source, target) ==
  IF source \notin G.nodes \/ target \notin G.nodes
  THEN Raise("NodeNotFound")
  ELSE BfsLevel(G, {source}, {source}, target, 0)

Min(S) == CHOOSE x \in S : \A y \in S : x <= y

\* The inner loop of shortest_path_distance with every target but the source
\* itself.
MinDistToOtherTargets(G, source, target_set) ==
  LET dist == [t \in target_set \ {source} |-> shortest_path_length(G, source, t)]
      uncaught == {t \in DOMAIN dist : ~dist[t].ok /\ dist[t].exc # "NetworkXNoPath"}
  IN  IF uncaught # {} THEN Raise(dist[CHOOSE t \in uncaught : TRUE].exc)
      ELSE Ok(Min({infinity_value} \cup {dist[t].val : t \in {u \in DOMAIN dist : dist[u].ok}}))

\* The inner loop of shortest_path_distance: min_dist starts at the sentinel
\* and is lowered by min() to every path length found; a NetworkXNoPath is
\* caught and passed over, any other exception leaves the function.
MinDistToTargets(G, source, target_set) ==
  LET dist == [t \in target_set |-> shortest_path_length(G, source, t)]
      uncaught == {t \in target_set : ~dist[t].ok /\ dist[t].exc # "NetworkXNoPath"}
  IN  IF uncaught # {} THEN Raise(dist[CHOOSE t \in uncaught : TRUE].exc)
      ELSE Ok(Min({infinity_value} \cup {dist[t].val : t \in {u \in target_set : dist[u].ok}}))

\* The outer loop: total_distance += min_dist for every source.
RECURSIVE TotalDistance(_, _, _)
TotalDistance(G, sources, target_set) ==
  IF sources = {} THEN Ok(0)
  ELSE LET s == CHOOSE x \in sources : TRUE
           m == MinDistToTargets(G, s, target_set)
           rest == TotalDistance(G, sources \ {s}, target_set)
       IN  IF ~m.ok THEN m
           ELSE IF ~rest.ok THEN rest
           ELSE Ok(m.val + rest.val)

\* shortest_path_distance returning the total instead of the average.
shortest_path_distance_total(G, source_set, target_set) ==
  LET src == source_set \cap G.nodes
      tgt == target_set \cap G.nodes
      total == TotalDistance(G, src, tgt)
  IN  IF Cardinality(src) = 0 \/ Cardinality(tgt) = 0
      THEN Ok(RInt(infinity_value))
      ELSE IF ~total.ok THEN total
      ELSE Ok(RInt(total.val))

\* shortest_path_distance without the filter to the genes of the network.
shortest_path_distance_unfiltered(G, source_set, target_set) ==
  LET total == TotalDistance(G, source_set, target_set)
  IN  IF Cardinality(source_set) = 0 \/ Cardinality(target_set) = 0
      THEN Ok(RInt(infinity_value))
      ELSE IF ~total.ok THEN total
      ELSE Ok(Rat(total.val, Cardinality(source_set)))

shortest_path_distance(G, source_set, target_set) ==
  LET src == source_set \cap G.nodes
      tgt == target_set \cap G.nodes
      total == TotalDistance(G, src, tgt)
  IN  IF Cardinality(src) = 0 \/ Cardinality(tgt) = 0
      THEN Ok(RInt(infinity_value))
      ELSE IF ~total.ok THEN total
      ELSE Ok(Rat(total.val, Cardinality(src)))

\* Returns <<d(A,B), d(B,A)>>.
module_proximity(G, module_a, module_b) ==
  LET d_ab == shortest_path_distance(G, module_a, module_b)
      d_ba == shortest_path_distance(G, module_b, module_a)
  IN  IF ~d_ab.ok THEN d_ab
      ELSE IF ~d_ba.ok THEN d_ba
      ELSE Ok(<<d_ab.val, d_ba.val>>)

\* separation_score with d(A,B) alone as the inter-module distance.
separation_score_oneway(G, module_a, module_b) ==
  LET d_ab == shortest_path_distance(G, module_a, module_b)
      d_aa == shortest_path_distance(G, module_a, module_a)
      d_bb == shortest_path_distance(G, module_b, module_b)
  IN  IF ~d_ab.ok THEN d_ab
      ELSE IF ~d_aa.ok THEN d_aa
      ELSE IF ~d_bb.ok THEN d_bb
      ELSE Ok(RSub(d_ab.val, RDiv(RAdd(d_aa.val, d_bb.val), RInt(2))))

separation_score(G, module_a, module_b) ==
  LET d_ab == shortest_path_distance(G, module_a, module_b)
      d_ba == shortest_path_distance(G, module_b, module_a)
      d_aa == shortest_path_distance(G, module_a, module_a)
      d_bb == shortest_path_distance(G, module_b, module_b)
  IN  IF ~d_ab.ok THEN d_ab
      ELSE IF ~d_ba.ok THEN d_ba
      ELSE IF ~d_aa.ok THEN d_aa
      ELSE IF ~d_bb.ok THEN d_bb
      ELSE LET d_between == RDiv(RAdd(d_ab.val, d_ba.val), RInt(2))
               d_within == RDiv(RAdd(d_aa.val, d_bb.val), RInt(2))
           IN  Ok(RSub(d_between, d_within))

(***************************************************************************)
(* scoring/tqab.py                                                         *)
(***************************************************************************)
COMPLEMENTARY == "complementary"
REDUNDANT == "redundant"
INTERMEDIATE == "intermediate"

\* ClassifyTopology with the threshold 3.0 included among the close distances.
ClassifyTopology_closed(s_ab, d_aq, d_bq) ==
  LET d_q_mean == RDiv(RAdd(d_aq, d_bq), RInt(2))
  IN  IF RLt(RInt(0), s_ab)
      THEN IF RLe(d_aq, RInt(3)) /\ RLe(d_bq, RInt(3))
           THEN <<RSub(RInt(1), RDiv(d_q_mean, RInt(10))), "complementary">>
           ELSE <<RSub(Rat(1, 2), RDiv(d_q_mean, RInt(10))), "intermediate">>
      ELSE <<RDiv(RNeg(RAbs(s_ab)), RInt(5)), "redundant">>

\* The classification and the score of compute_tqab, from s_AB, d_AQ, d_BQ.
\* Returns <<score, topology_class>>.
ClassifyTopology(s_ab, d_aq, d_bq) ==
  LET d_q_mean == RDiv(RAdd(d_aq, d_bq), RInt(2))
  IN  IF RLt(RInt(0), s_ab)
      THEN IF RLt(d_aq, RInt(3)) /\ RLt(d_bq, RInt(3))
           THEN <<RSub(RInt(1), RDiv(d_q_mean, RInt(10))), COMPLEMENTARY>>
           ELSE <<RSub(Rat(1, 2), RDiv(d_q_mean, RInt(10))), INTERMEDIATE>>
      ELSE <<RDiv(RNeg(RAbs(s_ab)), RInt(5)), REDUNDANT>>

\* The classification of compute_tqab, given the outcomes of its three
\* distance calls.
TqabOf(s_ab, d_aq, d_bq) ==
  IF ~s_ab.ok THEN s_ab
  ELSE IF ~d_aq.ok THEN d_aq
  ELSE IF ~d_bq.ok THEN d_bq
  ELSE Ok(ClassifyTopology(s_ab.val, d_aq.val, d_bq.val))

compute_tqab(G, disease_module, drug_a_module, drug_b_module) ==
  TqabOf(separation_score(G, drug_a_module, drug_b_module),
         shortest_path_distance(G, drug_a_module, disease_module),
         shortest_path_distance(G, drug_b_module, disease_module))

(***************************************************************************)
(* metrics/null_models.py                                                  *)
(***************************************************************************)
\* _build_degree_bins(degrees, n_bins=20).  Its loop over degrees.items()
\* calls _get_bin(degree, bins, bin_edges): three positional arguments for
\* the two parameters (degree, bin_edges) of _get_bin, a TypeError at the
\* first gene.  With no gene the loop body never runs and the n_bins empty
\* bins are returned (the caller never gets there: it has returned before).
build_degree_bins(degrees, n_bins) ==
  IF DOMAIN degrees = {} THEN Ok([b \in 1..n_bins |-> <<>>])
  ELSE Raise("TypeError")

\* degree_preserving_randomization(G, module, n_random, seed): the list of
\* the random modules.  The seeding of the random generators comes first and
\* changes no result here; lines 68-90, the sampling, run only after
\* _build_degree_bins has returned for a graph with a gene, which it never
\* does.
degree_preserving_randomization(G, module, n_random, seed) ==
  LET mod == module \cap G.nodes
      degrees == [v \in G.nodes |-> Degree(G, v)]
      degree_bins == build_degree_bins(degrees, 20)
  IN  IF Cardinality(mod) = 0 THEN Ok(<<>>)
      ELSE IF ~degree_bins.ok THEN degree_bins
      ELSE Ok(<<>>)

RECURSIVE SeqSum(_)
SeqSum(q) == IF q = <<>> THEN RInt(0) ELSE RAdd(Head(q), SeqSum(Tail(q)))

\* np.mean of a non-empty list.
Mean(q) == RDiv(SeqSum(q), RInt(Len(q)))

\* The square of np.std of a non-empty list (the population variance).
Variance(q) ==
  LET m == Mean(q)
  IN  Mean([i \in 1..Len(q) |-> RMul(RSub(q[i], m), RSub(q[i], m))])

\* compute_zscore with the sample standard deviation (ddof = 1) of a list of
\* two or more values.
compute_zscore_sample(observed, null_distribution) ==
  LET n == Len(null_distribution)
      var == IF n < 2 THEN Variance(null_distribution)
             ELSE RMul(Variance(null_distribution), Rat(n, n - 1))
  IN  IF n = 0 THEN RealZero
      ELSE IF var[1] = 0 THEN RealZero
      ELSE RealScale(RealInvSqrt(var), RSub(observed, Mean(null_distribution)))

\* compute_zscore(observed, null_distribution): a real.
compute_zscore(observed, null_distribution) ==
  IF Len(null_distribution) = 0 THEN RealZero
  ELSE LET null_mean == Mean(null_distribution)
           null_var == Variance(null_distribution)
       IN  IF null_var[1] = 0 THEN RealZero
           ELSE RealScale(RealInvSqrt(null_var), RSub(observed, null_mean))

\* A float that may be nan.
NaN == [nan |-> TRUE]
Num(q) == [nan |-> FALSE, val |-> q]

\* compute_normalized_proximity: <<observed, z, p_value>>; np.mean of the
\* empty list of comparisons is nan (a warning, no exception).
NormalizedProximityOf(G, disease_module, observed, random_drug_modules) ==
  IF ~observed.ok THEN observed
  ELSE IF ~random_drug_modules.ok THEN random_drug_modules
  ELSE LET rdm == random_drug_modules.val
           null_prox == [i \in 1..Len(rdm) |->
                           shortest_path_distance(G, disease_module, rdm[i])]
           failed == {i \in 1..Len(rdm) : ~null_prox[i].ok}
           null_proximities == [i \in 1..Len(rdm) |-> null_prox[i].val]
           z == compute_zscore(observed.val, null_proximities)
           below == {i \in 1..Len(rdm) : RLe(null_proximities[i], observed.val)}
           p_value == IF Len(rdm) = 0 THEN NaN
                      ELSE Num(Rat(Cardinality(below), Len(rdm)))
       IN  IF failed # {} THEN null_prox[Min(failed)]
           ELSE Ok(<<observed.val, z, p_value>>)

compute_normalized_proximity(G, disease_module, drug_module, n_random, seed) ==
  NormalizedProximityOf(
    G, disease_module,
    shortest_path_distance(G, disease_module, drug_module),
    degree_preserving_randomization(G, drug_module, n_random, seed))

(***************************************************************************)
(* scoring/pqab.py                                                         *)
(***************************************************************************)
\* compute_pqab: <<pqab, z_qa, z_qb>>.
\* The triple of compute_pqab, given the outcomes of its two calls of
\* compute_normalized_proximity.
PqabOf(qa, qb) ==
  IF ~qa.ok THEN qa
  ELSE IF ~qb.ok THEN qb
  ELSE LET z_qa == qa.val[2]
           z_qb == qb.val[2]
           pqab == RealScale(RealAdd(z_qa, z_qb), Rat(1, 2))
       IN  Ok(<<RealNeg(pqab), z_qa, z_qb>>)

compute_pqab(G, disease_module, drug_a_module, drug_b_module, n_randomizations, seed) ==
  PqabOf(compute_normalized_proximity(G, disease_module, drug_a_module,
                                      n_randomizations, seed),
         compute_normalized_proximity(G, disease_module, drug_b_module,
                                      n_randomizations, seed + 1))

(***************************************************************************)
(* metrics/transcription.py                                                *)
(* A signature is a function from its genes to rationals.                  *)
(***************************************************************************)
\* scipy's rankdata with average ranks for ties: the rank of v[g] is the
\* number of smaller values plus the mean of 1..(number of equal values).
AverageRank(v, g) ==
  LET less == Cardinality({h \in DOMAIN v : RLt(v[h], v[g])})
      same == Cardinality({h \in DOMAIN v : v[h] = v[g]})
  IN  RAdd(RInt(less), Rat(same + 1, 2))

\* spearmanr(a, b) over the same genes: the Pearson correlation of the
\* ranks, nan when either input is constant.
spearmanr(a, b) ==
  LET D == DOMAIN a
      ra == [g \in D |-> AverageRank(a, g)]
      rb == [g \in D |-> AverageRank(b, g)]
      ma == RDiv(RSumOver(ra, D), RInt(Cardinality(D)))
      mb == RDiv(RSumOver(rb, D), RInt(Cardinality(D)))
      cov == RSumOver([g \in D |-> RMul(RSub(ra[g], ma), RSub(rb[g], mb))], D)
      va == RSumOver([g \in D |-> RMul(RSub(ra[g], ma), RSub(ra[g], ma))], D)
      vb == RSumOver([g \in D |-> RMul(RSub(rb[g], mb), RSub(rb[g], mb))], D)
  IN  IF va[1] = 0 \/ vb[1] = 0 THEN NaN
      ELSE Num(RealScale(RealInvSqrt(RMul(va, vb)), cov))

\* compute_correlation with two common genes accepted.
compute_correlation_two_genes(signature_a, signature_b) ==
  LET common_genes == DOMAIN signature_a \cap DOMAIN signature_b
      corr == spearmanr([g \in common_genes |-> signature_a[g]],
                        [g \in common_genes |-> signature_b[g]])
  IN  IF Cardinality(common_genes) < 2 THEN RealZero
      ELSE IF corr.nan THEN RealZero
      ELSE corr.val

\* compute_correlation(signature_a, signature_b, method='spearman'): a real.
compute_correlation(signature_a, signature_b) ==
  LET common_genes == DOMAIN signature_a \cap DOMAIN signature_b
      values_a == [g \in common_genes |-> signature_a[g]]
      values_b == [g \in common_genes |-> signature_b[g]]
      corr == spearmanr(values_a, values_b)
  IN  IF Cardinality(common_genes) < 3 THEN RealZero
      ELSE IF corr.nan THEN RealZero
      ELSE corr.val

\* The signed dictionary of a drug: 1.0 for the up genes, then -1.0 for the
\* down genes (a gene in both ends at -1.0).
DrugSignature(drug_signature_up, drug_signature_down) ==
  [g \in drug_signature_up \cup drug_signature_down |->
     IF g \in drug_signature_down THEN RInt(-1) ELSE RInt(1)]

\* transcriptional_similarity with inverse_correlation = False.
transcriptional_similarity_direct(disease_signature, drug_signature_up, drug_signature_down) ==
  compute_correlation(disease_signature,
                      DrugSignature(drug_signature_up, drug_signature_down))

\* transcriptional_similarity with inverse_correlation = True.
transcriptional_similarity(disease_signature, drug_signature_up, drug_signature_down) ==
  RealNeg(compute_correlation(
            disease_signature,
            DrugSignature(drug_signature_up, drug_signature_down)))

(***************************************************************************)
(* scoring/cqab.py                                                         *)
(***************************************************************************)
\* compute_cqab: <<cqab, c_qa, c_qb>>.
compute_cqab(disease_signature, drug_a_signature_up, drug_a_signature_down, drug_b_signature_up, drug_b_signature_down) ==
  LET c_qa == transcriptional_similarity(
                disease_signature, drug_a_signature_up, drug_a_signature_down)
      c_qb == transcriptional_similarity(
                disease_signature, drug_b_signature_up, drug_b_signature_down)
  IN  <<RealScale(RealAdd(c_qa, c_qb), Rat(1, 2)), c_qa, c_qb>>

\* compute_cqab_batch: the dictionary of the pairs whose two drugs have a
\* signature entry.
compute_cqab_batch(disease_signature, drug_signatures, drug_pairs) ==
  LET names == {drug_signatures[i].name : i \in DOMAIN drug_signatures}
      entry(n) == CHOOSE e \in {drug_signatures[i] : i \in DOMAIN drug_signatures} :
                    e.name = n
      kept == {drug_pairs[i] : i \in DOMAIN drug_pairs} \cap (names \X names)
  IN  [pair \in kept |->
         compute_cqab(disease_signature,
                      entry(pair[1]).up, entry(pair[1]).down,
                      entry(pair[2]).up, entry(pair[2]).down)]

(***************************************************************************)
(* scoring/tqab.py and scoring/pqab.py, the batch functions.  drug_modules *)
(* is a function from drug names to gene sets; a dictionary is a function  *)
(* from its keys.  An exception of one pair ends the loop.                 *)
(***************************************************************************)
\* results maps each pair the loop does not skip to the outcome of its
\* call: the first failure in the order of the loop, or the dictionary.
BatchResults(drug_pairs, results) ==
  LET failed == {i \in DOMAIN drug_pairs :
                   drug_pairs[i] \in DOMAIN results /\ ~results[drug_pairs[i]].ok}
  IN  IF failed # {} THEN results[drug_pairs[Min(failed)]]
      ELSE Ok([pair \in DOMAIN results |-> results[pair].val])

\* A loop that skips every pair.
compute_tqab_batch_skipping(G, disease_module, drug_modules, drug_pairs) ==
  Ok(<<>>)

compute_tqab_batch(G, disease_module, drug_modules, drug_pairs) ==
  LET kept == {drug_pairs[i] : i \in DOMAIN drug_pairs}
                \cap ((DOMAIN drug_modules) \X (DOMAIN drug_modules))
  IN  BatchResults(drug_pairs,
        [pair \in kept |->
           compute_tqab(G, disease_module,
                        drug_modules[pair[1]], drug_modules[pair[2]])])

compute_pqab_batch(G, disease_module, drug_modules, drug_pairs, n_randomizations, seed) ==
  LET kept == {drug_pairs[i] : i \in DOMAIN drug_pairs}
                \cap ((DOMAIN drug_modules) \X (DOMAIN drug_modules))
  IN  BatchResults(drug_pairs,
        [pair \in kept |->
           compute_pqab(G, disease_module,
                        drug_modules[pair[1]], drug_modules[pair[2]],
                        n_randomizations, seed)])

(***************************************************************************)
(* scoring/predictor.py                                                    *)
(* An optional value is None or Some(v).  drug_modules, an insertion-      *)
(* ordered dictionary, is a sequence of entries [name, up, down] with      *)
(* distinct names; the other dictionaries are functions from their keys.   *)
(***************************************************************************)
None == [set |-> FALSE]
Some(v) == [set |-> TRUE, val |-> v]

\* The defaults of n_randomizations and seed.
DefaultRandomizations == 1000
DefaultSeed == 42

\* SynergyPredictor.__init__: the fields other than the network.
NoPredictor ==
  [n_randomizations |-> DefaultRandomizations, seed |-> DefaultSeed,
   disease_modules |-> None, drug_modules |-> None,
   disease_signatures |-> None]

\* dict.get(key, default)
Get(d, key, default) == IF key \in DOMAIN d THEN d[key] ELSE default

\* The pairs (names[i], names[j]), i < j, in the order of the two loops.
RECURSIVE DrugPairsFrom(_, _)
DrugPairsFrom(drug_names, i) ==
  IF i > Len(drug_names) THEN <<>>
  ELSE [k \in 1..(Len(drug_names) - i) |-> <<drug_names[i], drug_names[i + k]>>]
         \o DrugPairsFrom(drug_names, i + 1)

\* tqab + pqab alone.
PredictionScore_without_cqab(tqab, pqab, cqab) ==
  RealAdd(RealOfRat(tqab), pqab)

\* prediction = tqab + pqab + cqab
PredictionScore(tqab, pqab, cqab) ==
  RealAdd(RealAdd(RealOfRat(tqab), pqab), cqab)

\* df.sort_values('prediction_score', ascending=False): a frame without
\* rows has no such column; the order among equal scores is the sort
\* algorithm's, so every order that is descending is a possible outcome.
SortValuesDescending(predictions) ==
  IF Len(predictions) = 0 THEN {Raise("KeyError")}
  ELSE LET n == Len(predictions)
           descending(p) ==
             \A i \in 1..n, j \in 1..n :
               i < j => ~RealLt(predictions[p[i]].prediction_score,
                                predictions[p[j]].prediction_score)
       IN  {Ok([i \in 1..n |-> predictions[p[i]]]) :
              p \in {q \in Permutations(1..n) : descending(q)}}

\* The records of predict_all in the order of drug_pairs, sorted, given the
\* outcomes of the three batch calls.
PredictionsOf(disease, drug_pairs, tqab_results, pqab_results, cqab_results) ==
  LET record(pair) ==
        LET t == Get(tqab_results.val, pair, <<RInt(0), "unknown">>)
            pq == Get(pqab_results.val, pair, <<RealZero, RealZero, RealZero>>)
            c == Get(cqab_results, pair, <<RealZero, RealZero, RealZero>>)
        IN  [disease |-> disease, drug_a |-> pair[1], drug_b |-> pair[2],
             tqab |-> t[1], pqab |-> pq[1], cqab |-> c[1],
             prediction_score |-> PredictionScore(t[1], pq[1], c[1]),
             topology_class |-> t[2],
             pqa |-> pq[2], pqb |-> pq[3], cqa |-> c[2], cqb |-> c[3]]
  IN  IF ~tqab_results.ok THEN {tqab_results}
      ELSE IF ~pqab_results.ok THEN {pqab_results}
      ELSE SortValuesDescending([i \in DOMAIN drug_pairs |-> record(drug_pairs[i])])

\* drug_pairs: the pairs of the names, cut to max_pairs when that is
\* neither None nor 0.
DrugPairs(drug_names, max_pairs) ==
  IF max_pairs.set /\ max_pairs.val # 0
    THEN SubSeq(DrugPairsFrom(drug_names, 1), 1,
                Min({max_pairs.val, Len(DrugPairsFrom(drug_names, 1))}))
    ELSE DrugPairsFrom(drug_names, 1)

\* The batch calls of predict_all on its pairs.
PredictPairs(G, self, disease, entries, drug_module_sets, drug_pairs) ==
  PredictionsOf(
    disease, drug_pairs,
    compute_tqab_batch(G, self.disease_modules.val[disease],
                       drug_module_sets, drug_pairs),
    compute_pqab_batch(G, self.disease_modules.val[disease],
                       drug_module_sets, drug_pairs,
                       self.n_randomizations, self.seed),
    IF self.disease_signatures.set
         /\ DOMAIN self.disease_signatures.val # {}
         /\ disease \in DOMAIN self.disease_signatures.val
      THEN compute_cqab_batch(self.disease_signatures.val[disease],
                              entries, drug_pairs)
      ELSE <<>>)

\* predict_all with the disease signatures required as the modules are.
predict_all_signatures_required(G, self, disease, max_pairs) ==
  IF ~self.disease_modules.set \/ ~self.drug_modules.set
       \/ ~self.disease_signatures.set
    THEN {Raise("ValueError")}
  ELSE IF disease \notin DOMAIN self.disease_modules.val
    THEN {Raise("ValueError")}
  ELSE
    LET entries == self.drug_modules.val
    IN  PredictPairs(
          G, self, disease, entries,
          [n \in {entries[i].name : i \in DOMAIN entries} |->
             LET e == CHOOSE x \in {entries[i] : i \in DOMAIN entries} : x.name = n
             IN  e.up \cup e.down],
          DrugPairs([i \in DOMAIN entries |-> entries[i].name], max_pairs))

\* predict_all(self, disease, max_pairs): the set of its possible outcomes.
predict_all(G, self, disease, max_pairs) ==
  IF ~self.disease_modules.set \/ ~self.drug_modules.set
    THEN {Raise("ValueError")}
  ELSE IF disease \notin DOMAIN self.disease_modules.val
    THEN {Raise("ValueError")}
  ELSE
    LET entries == self.drug_modules.val
    IN  PredictPairs(
          G, self, disease, entries,
          [n \in {entries[i].name : i \in DOMAIN entries} |->
             LET e == CHOOSE x \in {entries[i] : i \in DOMAIN entries} : x.name = n
             IN  e.up \cup e.down],
          DrugPairs([i \in DOMAIN entries |-> entries[i].name], max_pairs))

(***************************************************************************)
(* The calls: each behaviour of Spec is one call of one function, on one   *)
(* graph, with one choice of arguments.                                    *)
(***************************************************************************)
Init ==
  /\ network \in Graphs
  /\ predictor = NoPredictor
  /\ call = [op |-> "none"]
  /\ files = NoFiles

CallShortestPathDistance ==
  /\ call.op = "none"
  /\ \E S \in ModulePool(network), T \in ModulePool(network) :
       call' = [op |-> "shortest_path_distance", source_set |-> S,
                target_set |-> T,
                result |-> shortest_path_distance(network, S, T)]
  /\ UNCHANGED <<network, predictor, files>>

CallModuleProximity ==
  /\ call.op = "none"
  /\ \E A \in ModulePool(network), B \in ModulePool(network) :
       call' = [op |-> "module_proximity", module_a |-> A, module_b |-> B,
                result |-> module_proximity(network, A, B)]
  /\ UNCHANGED <<network, predictor, files>>

CallSeparationScore ==
  /\ call.op = "none"
  /\ \E A \in ModulePool(network), B \in ModulePool(network) :
       call' = [op |-> "separation_score", module_a |-> A, module_b |-> B,
                result |-> separation_score(network, A, B)]
  /\ UNCHANGED <<network, predictor, files>>

CallComputeTqab ==
  /\ call.op = "none"
  /\ \E Q \in ModulePool(network), A \in ModulePool(network),
        B \in ModulePool(network) :
       call' = [op |-> "compute_tqab", disease_module |-> Q,
                drug_a_module |-> A, drug_b_module |-> B,
                result |-> compute_tqab(network, Q, A, B)]
  /\ UNCHANGED <<network, predictor, files>>

\* The calls of metrics/distances.py.
Next ==
  \/ CallShortestPathDistance
  \/ CallModuleProximity
  \/ CallSeparationScore

Spec == Init /\ [][Next]_vars

\* The calls of scoring/tqab.py.
NextTqab == CallComputeTqab

SpecTqab == Init /\ [][NextTqab]_vars

CallComputeNormalizedProximity ==
  /\ call.op = "none"
  /\ \E Q \in ModulePool(network), M \in ModulePool(network) :
       call' = [op |-> "compute_normalized_proximity", disease_module |-> Q,
                drug_module |-> M,
                result |-> compute_normalized_proximity(
                             network, Q, M, DefaultRandomizations, DefaultSeed)]
  /\ UNCHANGED <<network, predictor, files>>

CallComputePqab ==
  /\ call.op = "none"
  /\ \E Q \in ModulePool(network), A \in ModulePool(network),
        B \in ModulePool(network) :
       call' = [op |-> "compute_pqab", disease_module |-> Q,
                drug_a_module |-> A, drug_b_module |-> B,
                result |-> compute_pqab(network, Q, A, B,
                                        DefaultRandomizations, DefaultSeed)]
  /\ UNCHANGED <<network, predictor, files>>

\* The largest small n_random of a direct call of the sampler.
MaxRandom == 2

\* A direct call of the sampler.  It seeds the global generators of random
\* and numpy first; no reachable line draws from them afterwards, so their
\* state is not part of the model.
CallDegreePreservingRandomization ==
  /\ call.op = "none"
  /\ \E module \in ModulePool(network),
        n_random \in 0..MaxRandom \cup {DefaultRandomizations},
        seed \in {DefaultSeed, DefaultSeed + 1} :
       call' = [op |-> "degree_preserving_randomization", module |-> module,
                n_random |-> n_random, seed |-> seed,
                result |-> degree_preserving_randomization(
                             network, module, n_random, seed)]
  /\ UNCHANGED <<network, predictor, files>>

\* The calls of scoring/pqab.py and of the normalisation it rests on.
NextPqab ==
  \/ CallDegreePreservingRandomization
  \/ CallComputeNormalizedProximity
  \/ CallComputePqab

SpecPqab == Init /\ [][NextPqab]_vars

\* The lengths of the null distributions and the values (in halves)
\* compute_zscore is called with.
MaxNull == 3
MaxHalves == 4

ZValues == {Rat(k, 2) : k \in 0..MaxHalves}

\* tests/test_null_models.py test_compute_zscore.
TestObserved == RInt(5)
TestNull == <<RInt(10), RInt(11), RInt(9), Rat(21, 2), Rat(51, 5)>>

NullDistributions ==
  UNION {[1..n -> ZValues] : n \in 0..MaxNull} \cup {TestNull}

NoGraph == [nodes |-> {}, edges |-> {}]

InitZscore ==
  /\ network = NoGraph
  /\ predictor = NoPredictor
  /\ call = [op |-> "none"]
  /\ files = NoFiles

CallComputeZscore ==
  /\ call.op = "none"
  /\ \E observed \in ZValues \cup {TestObserved}, null \in NullDistributions :
       call' = [op |-> "compute_zscore", observed |-> observed,
                null_distribution |-> null,
                result |-> Ok(compute_zscore(observed, null))]
  /\ UNCHANGED <<network, predictor, files>>

NextZscore == CallComputeZscore

SpecZscore == InitZscore /\ [][NextZscore]_vars

(***************************************************************************)
(* Calls of transcriptional_similarity and of compute_cqab: a disease      *)
(* signature over some of the genes 1..NumSigGenes, and up and down sets   *)
(* of a drug among those genes.                                            *)
(***************************************************************************)
NumSigGenes == 3

SigGenes == 1..NumSigGenes

\* The values of tests/test_scoring.py test_cqab_inverse_correlation.
SigValues == {RInt(2), Rat(3, 2), RInt(-1)}

\* The signatures over the first k genes; the later genes are in none.
Signatures == UNION {[1..k -> SigValues] : k \in 0..NumSigGenes}

CallTranscriptionalSimilarity ==
  /\ call.op = "none"
  /\ \E signature \in Signatures, up \in SUBSET SigGenes, down \in SUBSET SigGenes :
       call' = [op |-> "transcriptional_similarity",
                disease_signature |-> signature,
                drug_signature_up |-> up, drug_signature_down |-> down,
                result |-> Ok(transcriptional_similarity(signature, up, down))]
  /\ UNCHANGED <<network, predictor, files>>

\* compute_cqab for a drug A of disjoint sets and a drug B that is A with
\* its sets swapped, or A itself.
CallComputeCqab ==
  /\ call.op = "none"
  /\ \E signature \in Signatures, up \in SUBSET SigGenes, swapped \in BOOLEAN :
     \E down \in SUBSET (SigGenes \ up) :
       LET b_up == IF swapped THEN down ELSE up
           b_down == IF swapped THEN up ELSE down
       IN  call' = [op |-> "compute_cqab", disease_signature |-> signature,
                    drug_a_signature_up |-> up, drug_a_signature_down |-> down,
                    drug_b_signature_up |-> b_up, drug_b_signature_down |-> b_down,
                    result |-> Ok(compute_cqab(signature, up, down, b_up, b_down))]
  /\ UNCHANGED <<network, predictor, files>>

NextCqab ==
  \/ CallTranscriptionalSimilarity
  \/ CallComputeCqab

SpecCqab == InitZscore /\ [][NextCqab]_vars

(***************************************************************************)
(* A SynergyPredictor: its setters and predict_all, called in any order.   *)
(* call is the latest call made on it.                                     *)
(***************************************************************************)
MaxDrugs == 3
MaxPairsArg == 2

PredictorGraphs == {Path4, TwoTriangles}

Diseases == {"asthma", "copd"}

\* Genes 7, 8 and 9 are in neither graph.
DiseaseSignature ==
  [g \in {7, 8, 9} |-> IF g = 7 THEN RInt(2) ELSE IF g = 8 THEN Rat(3, 2) ELSE RInt(-1)]

DrugCatalogue ==
  <<[name |-> "drug_a", up |-> {9}, down |-> {7, 8}],
    [name |-> "drug_b", up |-> {7, 8}, down |-> {9}],
    [name |-> "drug_c", up |-> {8}, down |-> {7, 9}],
    [name |-> "drug_d", up |-> {1, 2}, down |-> {3}]>>

\* Two insertion orders of the catalogue: by name, and drug_c first.
DrugArrangements == {<<1, 2, 3, 4>>, <<3, 1, 2, 4>>}

\* The dictionaries of up to MaxDrugs drugs that follow one another in an
\* arrangement of the catalogue, taken as a cycle.
DrugModuleDicts ==
  LET size == Len(DrugCatalogue)
  IN  {[i \in 1..n |-> DrugCatalogue[order[((first + i - 2) % size) + 1]]] :
         order \in DrugArrangements, first \in 1..size,
         n \in 0..Min({MaxDrugs, size})}

DiseaseModuleDicts ==
  {<<>>, "asthma" :> {1, 2}, ("asthma" :> {2, 3}) @@ ("copd" :> {7})}

DiseaseSignatureDicts ==
  {<<>>, "asthma" :> DiseaseSignature,
   "copd" :> [g \in {1, 7, 8, 9} |-> RInt(g)]}

InitPredictor ==
  /\ network \in PredictorGraphs
  /\ predictor = NoPredictor
  /\ call = [op |-> "none"]
  /\ files = NoFiles

SetDiseaseModules ==
  /\ \E modules \in DiseaseModuleDicts :
       predictor' = [predictor EXCEPT !.disease_modules = Some(modules)]
  /\ call' = [op |-> "set_disease_modules"]
  /\ UNCHANGED <<network, files>>

SetDrugModules ==
  /\ \E modules \in DrugModuleDicts :
       predictor' = [predictor EXCEPT !.drug_modules = Some(modules)]
  /\ call' = [op |-> "set_drug_modules"]
  /\ UNCHANGED <<network, files>>

SetDiseaseSignatures ==
  /\ \E signatures \in DiseaseSignatureDicts :
       predictor' = [predictor EXCEPT !.disease_signatures = Some(signatures)]
  /\ call' = [op |-> "set_disease_signatures"]
  /\ UNCHANGED <<network, files>>

PredictAll ==
  /\ \E disease \in Diseases,
        max_pairs \in {None} \cup {Some(k) : k \in 0..MaxPairsArg} :
       \E result \in predict_all(network, predictor, disease, max_pairs) :
         call' = [op |-> "predict_all", disease |-> disease,
                  max_pairs |-> max_pairs, result |-> result]
  /\ UNCHANGED <<network, predictor, files>>

NextPredictor ==
  \/ SetDiseaseModules
  \/ SetDrugModules
  \/ SetDiseaseSignatures
  \/ PredictAll

SpecPredictor == InitPredictor /\ [][NextPredictor]_vars

(***************************************************************************)
(* predict_all, statement by statement.  call is the frame of the call:    *)
(* pc is the statement it is at, i the position of the loop it is in, and  *)
(* the other fields are its local variables.  Each behaviour is one call   *)
(* on a predictor whose modules have been set.                             *)
(***************************************************************************)
\* The predictors after set_disease_modules, set_drug_modules and, or not,
\* set_disease_signatures.
InitStages ==
  /\ network \in PredictorGraphs
  /\ \E disease_modules \in DiseaseModuleDicts, drug_modules \in DrugModuleDicts,
        disease_signatures \in {None} \cup {Some(d) : d \in DiseaseSignatureDicts} :
       predictor = [NoPredictor EXCEPT !.disease_modules = Some(disease_modules),
                                       !.drug_modules = Some(drug_modules),
                                       !.disease_signatures = disease_signatures]
  /\ call = [op |-> "none"]
  /\ files = NoFiles

\* drug_module_sets: the union of up and down of each drug.
DrugModuleSets(self) ==
  [n \in {self.drug_modules.val[i].name : i \in DOMAIN self.drug_modules.val} |->
     LET e == CHOOSE x \in {self.drug_modules.val[i] : i \in DOMAIN self.drug_modules.val} :
                x.name = n
     IN  e.up \cup e.down]

\* The statement after the proximity batch, always the composition.
AfterPqabBatch_compose(self, disease) ==
  "compose"

\* The statement after the proximity batch: the correlation batch if
\* self.disease_signatures is truthy and has the disease.
AfterPqabBatch(self, disease) ==
  IF self.disease_signatures.set
       /\ DOMAIN self.disease_signatures.val # {}
       /\ disease \in DOMAIN self.disease_signatures.val
    THEN "cqab"
    ELSE "compose"

\* The frame at a statement, with the locals given.
Frame(disease, max_pairs, pc, drug_pairs) ==
  [op |-> "predict_all_steps", disease |-> disease, max_pairs |-> max_pairs,
   pc |-> pc, i |-> 1, drug_pairs |-> drug_pairs,
   tqab_results |-> <<>>, pqab_results |-> <<>>, cqab_results |-> <<>>,
   predictions |-> <<>>, result |-> None]

\* Lines 105-131: the checks, drug_pairs and drug_module_sets.
BeginPredictAll ==
  /\ call.op = "none"
  /\ \E disease \in Diseases,
        max_pairs \in {None} \cup {Some(k) : k \in 0..MaxPairsArg} :
       call' =
         IF disease \notin DOMAIN predictor.disease_modules.val
           THEN [Frame(disease, max_pairs, "raised", <<>>)
                   EXCEPT !.result = Some(Raise("ValueError"))]
           ELSE Frame(disease, max_pairs, "tqab",
                      DrugPairs([i \in DOMAIN predictor.drug_modules.val |->
                                   predictor.drug_modules.val[i].name],
                                max_pairs))
  /\ UNCHANGED <<network, predictor, files>>

\* The frame after one turn of a batch loop whose call gave outcome: the
\* result stored under the pair, or the exception raised out of predict_all.
AfterBatchTurn(frame, field, outcome) ==
  IF outcome.ok
    THEN [frame EXCEPT ![field] = (frame.drug_pairs[frame.i] :> outcome.val) @@ @,
                       !.i = @ + 1]
    ELSE [frame EXCEPT !.pc = "raised", !.result = Some(outcome)]

\* One turn of the loop of compute_tqab_batch.
TqabTurn ==
  /\ call.op = "predict_all_steps"
  /\ call.pc = "tqab"
  /\ call.i <= Len(call.drug_pairs)
  /\ call' = AfterBatchTurn(call, "tqab_results",
               compute_tqab(network, predictor.disease_modules.val[call.disease],
                            DrugModuleSets(predictor)[call.drug_pairs[call.i][1]],
                            DrugModuleSets(predictor)[call.drug_pairs[call.i][2]]))
  /\ UNCHANGED <<network, predictor, files>>

\* compute_tqab_batch returns.
TqabBatchReturn ==
  /\ call.op = "predict_all_steps"
  /\ call.pc = "tqab"
  /\ call.i > Len(call.drug_pairs)
  /\ call' = [call EXCEPT !.pc = "pqab", !.i = 1]
  /\ UNCHANGED <<network, predictor, files>>

\* One turn of the loop of compute_pqab_batch.
PqabTurn ==
  /\ call.op = "predict_all_steps"
  /\ call.pc = "pqab"
  /\ call.i <= Len(call.drug_pairs)
  /\ call' = AfterBatchTurn(call, "pqab_results",
               compute_pqab(network, predictor.disease_modules.val[call.disease],
                            DrugModuleSets(predictor)[call.drug_pairs[call.i][1]],
                            DrugModuleSets(predictor)[call.drug_pairs[call.i][2]],
                            predictor.n_randomizations, predictor.seed))
  /\ UNCHANGED <<network, predictor, files>>

\* compute_pqab_batch returns; lines 154-155.
PqabBatchReturn ==
  /\ call.op = "predict_all_steps"
  /\ call.pc = "pqab"
  /\ call.i > Len(call.drug_pairs)
  /\ call' = [call EXCEPT !.pc = AfterPqabBatch(predictor, call.disease), !.i = 1]
  /\ UNCHANGED <<network, predictor, files>>

\* One turn of the loop of compute_cqab_batch.
CqabTurn ==
  /\ call.op = "predict_all_steps"
  /\ call.pc = "cqab"
  /\ call.i <= Len(call.drug_pairs)
  /\ LET entry(n) == CHOOSE e \in {predictor.drug_modules.val[k] :
                                     k \in DOMAIN predictor.drug_modules.val} :
                       e.name = n
         drug_a == entry(call.drug_pairs[call.i][1])
         drug_b == entry(call.drug_pairs[call.i][2])
     IN  call' = AfterBatchTurn(call, "cqab_results",
                   Ok(compute_cqab(predictor.disease_signatures.val[call.disease],
                                   drug_a.up, drug_a.down, drug_b.up, drug_b.down)))
  /\ UNCHANGED <<network, predictor, files>>

\* compute_cqab_batch returns.
CqabBatchReturn ==
  /\ call.op = "predict_all_steps"
  /\ call.pc = "cqab"
  /\ call.i > Len(call.drug_pairs)
  /\ call' = [call EXCEPT !.pc = "compose", !.i = 1]
  /\ UNCHANGED <<network, predictor, files>>

\* The record of lines 167-187 for a pair.
RecordOf(disease, pair, t, pq, c) ==
  [disease |-> disease, drug_a |-> pair[1], drug_b |-> pair[2],
   tqab |-> t[1], pqab |-> pq[1], cqab |-> c[1],
   prediction_score |-> PredictionScore(t[1], pq[1], c[1]),
   topology_class |-> t[2],
   pqa |-> pq[2], pqb |-> pq[3], cqa |-> c[2], cqb |-> c[3]]

\* One turn of the loop of lines 166-187.
ComposeTurn ==
  /\ call.op = "predict_all_steps"
  /\ call.pc = "compose"
  /\ call.i <= Len(call.drug_pairs)
  /\ call' =
       [call EXCEPT
          !.predictions =
            Append(@, RecordOf(call.disease, call.drug_pairs[call.i],
                       Get(call.tqab_results, call.drug_pairs[call.i],
                           <<RInt(0), "unknown">>),
                       Get(call.pqab_results, call.drug_pairs[call.i],
                           <<RealZero, RealZero, RealZero>>),
                       Get(call.cqab_results, call.drug_pairs[call.i],
                           <<RealZero, RealZero, RealZero>>))),
          !.i = @ + 1]
  /\ UNCHANGED <<network, predictor, files>>

\* Lines 189-196: the frame, the sort and the return.
SortAndReturn ==
  /\ call.op = "predict_all_steps"
  /\ call.pc = "compose"
  /\ call.i > Len(call.drug_pairs)
  /\ \E outcome \in SortValuesDescending(call.predictions) :
       call' = [call EXCEPT !.pc = IF outcome.ok THEN "returned" ELSE "raised",
                            !.result = Some(outcome)]
  /\ UNCHANGED <<network, predictor, files>>

NextStages ==
  \/ BeginPredictAll
  \/ TqabTurn
  \/ TqabBatchReturn
  \/ PqabTurn
  \/ PqabBatchReturn
  \/ CqabTurn
  \/ CqabBatchReturn
  \/ ComposeTurn
  \/ SortAndReturn

SpecStages == InitStages /\ [][NextStages]_vars

(***************************************************************************)
(* scripts/run_pipeline.py, main.  A string is the sequence of its         *)
(* character codes; call is the frame of main: the diseases to process,    *)
(* the position i of the loop and the log records written so far.  The    *)
(* exceptions of the file system are the environment's choice.             *)
(***************************************************************************)
MaxDiseases == 2

\* str.lower() and str.replace(' ', '_') on ASCII strings.
Lower(text) ==
  [k \in DOMAIN text |-> IF text[k] \in 65..90 THEN text[k] + 32 ELSE text[k]]

ReplaceSpaces(text) ==
  [k \in DOMAIN text |-> IF text[k] = 32 THEN 95 ELSE text[k]]

\* output_dir / f"predictions_{disease.lower().replace(' ', '_')}.csv"
PredictionsFile(disease) ==
  <<"reports/tables", "predictions_", ReplaceSpaces(Lower(disease)), ".csv">>

\* "C D", "c_d" and "a".
PipelineDiseases == {<<67, 32, 68>>, <<99, 95, 100>>, <<97>>}

\* The disease modules files of the runs: 'C D' and 'a', or 'c_d' alone.
PipelineDiseaseModules ==
  {(<<67, 32, 68>> :> {1, 2}) @@ (<<97>> :> {7}), <<99, 95, 100>> :> {2, 3}}

\* The drug modules files of the runs: the first drugs of the catalogue.
PipelineDrugModules ==
  {SubSeq(DrugCatalogue, 1, n) : n \in 1..Len(DrugCatalogue)}

\* save_predictions: the file system and the outcome after mkdir and to_csv.
\* to_csv may raise before it has created the file or after it has written
\* part of the rows.
save_predictions(fs, predictions, output_path) ==
  {[files |-> (output_path :> [rows |-> predictions, complete |-> TRUE]) @@ fs,
    result |-> Ok(None)],
   [files |-> fs, result |-> Raise("OSError")]}
    \cup
  {[files |-> (output_path :> [rows |-> SubSeq(predictions, 1, k),
                               complete |-> FALSE]) @@ fs,
    result |-> Raise("OSError")] : k \in 0..(Len(predictions) - 1)}

\* save_predictions when to_csv is one indivisible write.
save_predictions_atomic(fs, predictions, output_path) ==
  {[files |-> (output_path :> [rows |-> predictions, complete |-> TRUE]) @@ fs,
    result |-> Ok(None)],
   [files |-> fs, result |-> Raise("OSError")]}

InitPipeline ==
  /\ network \in PredictorGraphs
  /\ predictor = NoPredictor
  /\ call = [op |-> "none"]
  /\ files = NoFiles

\* Lines 47-103: the arguments, the predictor and its modules.
MainSetup ==
  /\ call.op = "none"
  /\ \E disease_modules \in PipelineDiseaseModules, drug_modules \in PipelineDrugModules :
       predictor' = [predictor EXCEPT !.disease_modules = Some(disease_modules),
                                      !.drug_modules = Some(drug_modules)]
  /\ \E diseases \in UNION {[1..n -> PipelineDiseases] : n \in 1..MaxDiseases},
        max_pairs \in {None, Some(1)} :
       call' = [op |-> "run_pipeline", diseases |-> diseases,
                max_pairs |-> max_pairs, i |-> 1, log |-> <<>>, pc |-> "loop"]
  /\ UNCHANGED <<network, files>>

\* The turn of a loop that an error ends.
AfterDisease_abort(frame, level, exc) ==
  [frame EXCEPT !.log = Append(@, [disease |-> frame.diseases[frame.i],
                                   level |-> level, exc |-> exc]),
                !.i = IF level = "error" THEN Len(frame.diseases) + 1 ELSE @ + 1]

\* The frame after the turn of the loop for a disease, with the record
\* logged at its end.
AfterDisease(frame, level, exc) ==
  [frame EXCEPT !.log = Append(@, [disease |-> frame.diseases[frame.i],
                                   level |-> level, exc |-> exc]),
                !.i = @ + 1]

\* Lines 105-118: one turn of the loop over the diseases.
ProcessDisease ==
  /\ call.op = "run_pipeline"
  /\ call.pc = "loop"
  /\ call.i <= Len(call.diseases)
  /\ \E predictions \in predict_all(network, predictor, call.diseases[call.i], call.max_pairs) :
       IF ~predictions.ok
         THEN /\ call' = AfterDisease(call, "error", predictions.exc)
              /\ UNCHANGED files
         ELSE \E saved \in save_predictions(files, predictions.val,
                                            PredictionsFile(call.diseases[call.i])) :
                /\ files' = saved.files
                /\ call' = IF saved.result.ok
                             THEN AfterDisease(call, "info", "")
                             ELSE AfterDisease(call, "error", saved.result.exc)
  /\ UNCHANGED <<network, predictor>>

\* Lines 120-123: "Pipeline complete!".
PipelineComplete ==
  /\ call.op = "run_pipeline"
  /\ call.pc = "loop"
  /\ call.i > Len(call.diseases)
  /\ call' = [call EXCEPT !.pc = "complete"]
  /\ UNCHANGED <<network, predictor, files>>

NextPipeline ==
  \/ MainSetup
  \/ ProcessDisease
  \/ PipelineComplete

SpecPipeline == InitPipeline /\ [][NextPipeline]_vars

(***************************************************************************)
(* data/network_builder.py, NetworkBuilder.build from the loop over the    *)
(* rows of all_interactions.  A networkx graph with edge data is           *)
(* [nodes, sources]: nodes the sequence of its nodes in insertion order,   *)
(* sources the function from its edges, two-element sets, to their         *)
(* sources lists.                                                          *)
(***************************************************************************)
MaxRows == 3

\* The rows the interaction tables are made of: gene_a, gene_b, source.
RowPool ==
  {[gene_a |-> 1, gene_b |-> 2, source |-> "huri"],
   [gene_a |-> 2, gene_b |-> 1, source |-> "corum"],
   [gene_a |-> 1, gene_b |-> 1, source |-> "huri"],
   [gene_a |-> 3, gene_b |-> 4, source |-> "huri"],
   [gene_a |-> 3, gene_b |-> 4, source |-> "corum"],
   [gene_a |-> 4, gene_b |-> 5, source |-> "corum"],
   [gene_a |-> 2, gene_b |-> 3, source |-> "huri"],
   [gene_a |-> 5, gene_b |-> 5, source |-> "corum"]}

InteractionTables == UNION {[1..n -> RowPool] : n \in 0..MaxRows}

EmptyGraph == [nodes |-> <<>>, sources |-> <<>>]

\* The elements of a sequence.
Range(seq) == {seq[k] : k \in DOMAIN seq}

\* G.add_edge(u, v, sources=[source]) on a graph without the edge: the nodes
\* that are new are appended, u first.
add_edge(G, u, v, source) ==
  [nodes |-> G.nodes \o (IF u \in Range(G.nodes) THEN <<>> ELSE <<u>>)
                     \o (IF v \in Range(G.nodes) THEN <<>> ELSE <<v>>),
   sources |-> ({u, v} :> <<source>>) @@ G.sources]

\* Lines 158-176: the graph after the rows from position k on.
RECURSIVE AddRows(_, _, _)
AddRows(G, rows, k) ==
  IF k > Len(rows) THEN G
  ELSE IF rows[k].gene_a = rows[k].gene_b THEN AddRows(G, rows, k + 1)
  ELSE IF {rows[k].gene_a, rows[k].gene_b} \in DOMAIN G.sources
    THEN AddRows([G EXCEPT !.sources[{rows[k].gene_a, rows[k].gene_b}] =
                             Append(@, rows[k].source)],
                 rows, k + 1)
  ELSE AddRows(add_edge(G, rows[k].gene_a, rows[k].gene_b, rows[k].source),
               rows, k + 1)

\* The nodes that a search from the set seen reaches.
RECURSIVE ReachedFrom(_, _)
ReachedFrom(G, seen) ==
  LET next == seen \cup {v \in Range(G.nodes) :
                           \E u \in seen : {u, v} \in DOMAIN G.sources}
  IN  IF next = seen THEN seen ELSE ReachedFrom(G, next)

\* nx.connected_components(G): the components in the order of their first
\* nodes.
connected_components(G) ==
  LET firsts == {k \in DOMAIN G.nodes :
                   \A j \in 1..(k - 1) : G.nodes[k] \notin ReachedFrom(G, {G.nodes[j]})}
      position(n) == CHOOSE k \in firsts : Cardinality({j \in firsts : j <= k}) = n
  IN  [n \in 1..Cardinality(firsts) |-> ReachedFrom(G, {G.nodes[position(n)]})]

\* max(components, key=len): the first of the largest.
LargestOf(components) ==
  components[CHOOSE k \in DOMAIN components :
               /\ \A j \in DOMAIN components :
                    Cardinality(components[j]) <= Cardinality(components[k])
               /\ \A j \in 1..(k - 1) :
                    Cardinality(components[j]) < Cardinality(components[k])]

\* G.subgraph(nodes).copy()
subgraph(G, nodes) ==
  [nodes |-> SelectSeq(G.nodes, LAMBDA v : v \in nodes),
   sources |-> [e \in {d \in DOMAIN G.sources : d \subseteq nodes} |-> G.sources[e]]]

\* nx.is_connected(G); the null graph raises.
is_connected(G) ==
  IF Len(G.nodes) = 0 THEN Raise("NetworkXPointlessConcept")
  ELSE Ok(ReachedFrom(G, {G.nodes[1]}) = Range(G.nodes))

\* build that returns the graph of all the rows.
build_all_components(rows) ==
  Ok(AddRows(EmptyGraph, rows, 1))

\* Lines 155-193 of build.
build(rows) ==
  LET connected == is_connected(AddRows(EmptyGraph, rows, 1))
  IN  IF ~connected.ok THEN connected
      ELSE IF connected.val THEN Ok(AddRows(EmptyGraph, rows, 1))
      ELSE Ok(subgraph(AddRows(EmptyGraph, rows, 1),
                       LargestOf(connected_components(AddRows(EmptyGraph, rows, 1)))))

\* builder.build() on a builder whose tables hold the rows; self.network is
\* set when it returns.
CallBuild ==
  /\ call.op = "none"
  /\ \E rows \in InteractionTables :
       /\ call' = [op |-> "build", rows |-> rows, result |-> build(rows)]
       /\ network' = IF build(rows).ok
                       THEN [nodes |-> Range(build(rows).val.nodes),
                             edges |-> DOMAIN build(rows).val.sources]
                       ELSE network
  /\ UNCHANGED <<predictor, files>>

NextBuild ==
  CallBuild

SpecBuild == InitZscore /\ [][NextBuild]_vars

(***************************************************************************)
(* utils/config.py.  Dictionaries are objects: a heap is a function from   *)
(* addresses 1..n to dictionaries, a dictionary a function from keys to    *)
(* values, and a value a number [int |-> n] or a reference [ref |-> a] to  *)
(* a dictionary.  A string is the sequence of its characters; a key of a   *)
(* dictionary is a string without dots.  A Config is                       *)
(* [config |-> address of self._config, attrs |-> its attributes].         *)
(***************************************************************************)
MaxOverrides == 2

IntValue(n) == [int |-> n]
RefValue(a) == [ref |-> a]
IsRef(value) == "ref" \in DOMAIN value

\* Config.__init__: the attributes are set from the items of the dictionary,
\* a Config for each value that is a dictionary.
RECURSIVE ConfigOf(_, _)
ConfigOf(heap, a) ==
  [config |-> a,
   attrs |-> [key \in DOMAIN heap[a] |->
                IF IsRef(heap[a][key]) THEN ConfigOf(heap, heap[a][key].ref)
                ELSE heap[a][key]]]

\* The heap with one more dictionary, at the next address.
Allocate(heap, dict) ==
  Append(heap, dict)

\* Config.to_dict: a new dictionary with the items of self._config; no value
\* of self._config is a Config, so each value is stored as it is.
to_dict(heap, self) ==
  Allocate(heap, heap[self.config])

\* merged = base.to_dict(): the heap after it; merged is its last address.
merge_configs_InitialCopy(heap, base) ==
  to_dict(heap, base)

\* key.split('.')
RECURSIVE Split(_)
Split(text) ==
  IF \A k \in DOMAIN text : text[k] # "."
    THEN <<text>>
    ELSE LET dot == CHOOSE k \in DOMAIN text :
                      text[k] = "." /\ \A j \in 1..(k - 1) : text[j] # "."
         IN  <<SubSeq(text, 1, dot - 1)>> \o Split(SubSeq(text, dot + 1, Len(text)))

\* Lines 122-129 for one item of override: the heap after the assignment,
\* from the segment at position k of keys on, with target the value reached.
\* A target that is a number raises TypeError, at the membership test or at
\* the assignment.
RECURSIVE AssignPath(_, _, _, _, _)
AssignPath(heap, target, keys, k, value) ==
  IF ~IsRef(target) THEN Raise("TypeError")
  ELSE IF k = Len(keys)
    THEN Ok([heap EXCEPT ![target.ref] = (keys[k] :> value) @@ @])
  ELSE IF keys[k] \notin DOMAIN heap[target.ref]
    THEN AssignPath(
           Allocate([heap EXCEPT ![target.ref] =
                       (keys[k] :> RefValue(Len(heap) + 1)) @@ @], <<>>),
           RefValue(Len(heap) + 1), keys, k + 1, value)
  ELSE AssignPath(heap, heap[target.ref][keys[k]], keys, k + 1, value)

\* Lines 119-129: the loop over the items of override from position k on.
RECURSIVE MergeItems(_, _, _, _)
MergeItems(heap, merged, override, k) ==
  IF k > Len(override) THEN Ok(heap)
  ELSE LET assigned == AssignPath(heap, RefValue(merged), Split(override[k].key),
                                  1, override[k].value)
       IN  IF ~assigned.ok THEN assigned
           ELSE MergeItems(assigned.val, merged, override, k + 1)

\* merge_configs(base, override) on a heap: the heap after the call and the
\* Config returned or the exception raised.
merge_configs(heap, base, override) ==
  LET copied == merge_configs_InitialCopy(heap, base)
      items == MergeItems(copied, Len(copied), override, 1)
  IN  IF ~items.ok THEN [heap |-> copied, result |-> items]
      ELSE [heap |-> items.val,
            result |-> Ok(ConfigOf(items.val, Len(copied)))]

\* The dictionaries of the base configurations: n_cores and a propagation
\* section; n_cores alone; sections three deep.  The first address holds the
\* top dictionary.
BaseHeaps ==
  {<<(<<"n">> :> IntValue(4)) @@ (<<"p">> :> RefValue(2)),
     (<<"a">> :> IntValue(5)) @@ (<<"m">> :> IntValue(1000))>>,
   <<(<<"n">> :> IntValue(4))>>,
   <<(<<"p">> :> RefValue(2)),
     (<<"a">> :> IntValue(5)) @@ (<<"q">> :> RefValue(3)),
     (<<"b">> :> IntValue(1))>>}

\* The keys of the overrides: 'n', 'm', 'p.a', 'p.q.b', 'x.y', 'n.z'.
OverrideKeys ==
  {<<"n">>, <<"m">>, <<"p", ".", "a">>, <<"p", ".", "q", ".", "b">>,
   <<"x", ".", "y">>, <<"n", ".", "z">>}

\* The overrides: up to MaxOverrides items with distinct keys, in order.
Overrides ==
  {o \in UNION {[1..n -> [key : OverrideKeys, value : {IntValue(7), IntValue(8)}]] :
                  n \in 0..MaxOverrides} :
     \A i \in DOMAIN o, j \in DOMAIN o : i # j => o[i].key # o[j].key}

\* merge_configs(base, override) with base = Config(d) for a dictionary d.
CallMergeConfigs ==
  /\ call.op = "none"
  /\ \E heap \in BaseHeaps, override \in Overrides :
       call' = [op |-> "merge_configs", heap |-> heap,
                base |-> ConfigOf(heap, 1), override |-> override,
                after |-> merge_configs(heap, ConfigOf(heap, 1), override)]
  /\ UNCHANGED <<network, predictor, files>>

NextConfig ==
  CallMergeConfigs

SpecConfig == InitZscore /\ [][NextConfig]_vars

(***************************************************************************)
(* io/downloaders.py, DataDownloader.download_file, attempt by attempt.    *)
(* call is the downloader and the frame of its latest download_file call:  *)
(* retry_attempts, the number of calls so far, and of the latest call the  *)
(* output path, the attempt it is at, the requests it has made and its     *)
(* result.  A file is [chunks, complete]: the chunks of the body written   *)
(* to it and whether the writing request finished without error.  The      *)
(* outcome of a request is the environment's choice.                       *)
(***************************************************************************)
MaxRetryAttempts == 2
MaxCalls == 2
BodyChunks == 2

OutputPaths == {"data/raw/huri.tsv", "data/raw/corum.zip"}

\* DataDownloader.__init__
NewDownloader ==
  /\ call.op = "none"
  /\ \E retry_attempts \in 0..MaxRetryAttempts :
       call' = [op |-> "DataDownloader", retry_attempts |-> retry_attempts,
                calls |-> 0, output_path |-> "", pc |-> "idle", attempt |-> 0,
                requests |-> 0, result |-> None]
  /\ UNCHANGED <<network, predictor, files>>

\* The frame when download_file returns a value.
Returned(frame, value) ==
  [frame EXCEPT !.pc = "returned", !.result = Some(value)]

\* Lines 114-118 and 153: the file exists, the loop has no turn, or the
\* first attempt is next.
EntryOfDownloadFile(fs, frame) ==
  IF frame.output_path \in DOMAIN fs THEN Returned(frame, TRUE)
  ELSE IF frame.retry_attempts = 0 THEN Returned(frame, FALSE)
  ELSE [frame EXCEPT !.pc = "attempt"]

\* A call of download_file, up to its first attempt.
DownloadFile ==
  /\ call.op \in {"DataDownloader", "download_file"}
  /\ call.pc \in {"idle", "returned"}
  /\ call.calls < MaxCalls
  /\ \E output_path \in OutputPaths :
       call' = EntryOfDownloadFile(
                 files,
                 [call EXCEPT !.op = "download_file", !.calls = @ + 1,
                              !.output_path = output_path, !.attempt = 0,
                              !.requests = 0, !.result = None])
  /\ UNCHANGED <<network, predictor, files>>

\* Lines 145-151: the frame after an attempt has raised.
AfterFailedAttempt(frame) ==
  IF frame.attempt < frame.retry_attempts - 1
    THEN [frame EXCEPT !.attempt = @ + 1, !.requests = @ + 1]
    ELSE Returned([frame EXCEPT !.requests = @ + 1], FALSE)

\* Lines 119-123 raise: requests.get or raise_for_status fails.
RequestFails ==
  /\ call.op = "download_file"
  /\ call.pc = "attempt"
  /\ call' = AfterFailedAttempt(call)
  /\ UNCHANGED <<network, predictor, files>>

\* Lines 131-140 raise: the file is opened, which empties it, and the
\* stream fails after some of the chunks.
WriteFails ==
  /\ call.op = "download_file"
  /\ call.pc = "attempt"
  /\ \E written \in 0..(BodyChunks - 1) :
       files' = (call.output_path :> [chunks |-> written, complete |-> FALSE])
                  @@ files
  /\ call' = AfterFailedAttempt(call)
  /\ UNCHANGED <<network, predictor>>

\* Lines 119-143 without an exception: the whole body is written.
AttemptSucceeds ==
  /\ call.op = "download_file"
  /\ call.pc = "attempt"
  /\ files' = (call.output_path :> [chunks |-> BodyChunks, complete |-> TRUE])
                @@ files
  /\ call' = Returned([call EXCEPT !.requests = @ + 1], TRUE)
  /\ UNCHANGED <<network, predictor>>

NextDownloader ==
  \/ NewDownloader
  \/ DownloadFile
  \/ RequestFails
  \/ WriteFails
  \/ AttemptSucceeds

SpecDownloader == InitZscore /\ [][NextDownloader]_vars

(***************************************************************************)
(* The distances of section 4.1, defined from walks rather than by a       *)
(* search: the reference the results of the code are compared with.        *)
(***************************************************************************)
\* The nodes a walk of at most k edges from a node of W ends in.
RECURSIVE Within(_, _, _)
Within(G, W, k) ==
  IF k = 0 THEN W
  ELSE Within(G, W \cup {u \in G.nodes : \E v \in W : {u, v} \in G.edges}, k - 1)

Reaches(G, s, t) == t \in Within(G, {s}, Cardinality(G.nodes))

\* The least k for which a walk of at most k edges from a node of W ends in
\* T, counted up from k; the sentinel when no walk does.
RECURSIVE LeastWalk(_, _, _, _)
LeastWalk(G, W, T, k) ==
  IF W \cap T # {} THEN k
  ELSE LET W1 == Within(G, W, 1)
       IN  IF W1 = W THEN infinity_value ELSE LeastWalk(G, W1, T, k + 1)

\* d(s, t) for t reachable from s.
GraphDistance(G, s, t) == LeastWalk(G, {s}, {t}, 0)

Max(S) == CHOOSE x \in S : \A y \in S : x >= y

\* min over the reachable t of d(s, t); the sentinel when there is none.
NearestDistance(G, s, T) == LeastWalk(G, {s}, T, 0)

RECURSIVE SumNearest(_, _, _)
SumNearest(G, S, T) ==
  IF S = {} THEN 0
  ELSE LET s == CHOOSE x \in S : TRUE
       IN  NearestDistance(G, s, T) + SumNearest(G, S \ {s}, T)

\* dist_set_to_set(S, T) of section 4.1.
SetDistance(G, S, T) ==
  LET SV == S \cap G.nodes
      TV == T \cap G.nodes
  IN  IF SV = {} \/ TV = {} THEN RInt(infinity_value)
      ELSE Rat(SumNearest(G, SV, TV), Cardinality(SV))

InducedSubgraph(G, X) ==
  [nodes |-> X \cap G.nodes, edges |-> {e \in G.edges : e \subseteq X}]

IsConnected(H) == \A u \in H.nodes, v \in H.nodes : Reaches(H, u, v)

\* The diameter of a connected graph with at least one node.
Diameter(H) == Max({GraphDistance(H, u, v) : u \in H.nodes, v \in H.nodes})

(***************************************************************************)
(* Claims C1 - C6: distances, separation and the topology classifier.      *)
(***************************************************************************)

\* C1: for non-empty S and T inside the graph, each s of S reaching T,
\* shortest_path_distance(G, S, T) is the sum over s in S of the least
\* shortest-path length from s to a member of T, divided by |S|; it is 3 for
\* {A}, {D} on the path A-B-C-D and 4 in both directions between the ends of
\* the path of 5 vertices.
C1_AverageMinDistance ==
  call.op = "shortest_path_distance" =>
    LET S == call.source_set
        T == call.target_set
    IN  /\ ( /\ S # {} /\ T # {}
             /\ S \subseteq network.nodes /\ T \subseteq network.nodes
             /\ \A s \in S : \E t \in T : Reaches(network, s, t) )
           => call.result = Ok(Rat(SumNearest(network, S, T), Cardinality(S)))
        /\ (network = Path4 /\ S = {1} /\ T = {4}) => call.result = Ok(RInt(3))
        /\ (network = Path5 /\ S = {1} /\ T = {5}) => call.result = Ok(RInt(4))
        /\ (network = Path5 /\ S = {5} /\ T = {1}) => call.result = Ok(RInt(4))

\* C1 witness: a call with two sources at different distances from the
\* target set returns their (non-integer) average.
C1_Witness ==
  /\ call.op = "shortest_path_distance"
  /\ Cardinality(call.source_set) = 2
  /\ call.source_set \subseteq network.nodes
  /\ call.target_set \subseteq network.nodes
  /\ call.result = Ok(Rat(3, 2))

\* C2: shortest_path_distance never raises; it returns the sentinel 1000
\* when S or T has no member in the graph, and a source with no path to any
\* target contributes exactly 1000 to the average (the isolated Z against
\* {E} gives exactly 1000).
C2_SentinelNeverRaises ==
  call.op = "shortest_path_distance" =>
    LET S == call.source_set
        T == call.target_set
    IN  /\ call.result.ok
        /\ (S \cap network.nodes = {} \/ T \cap network.nodes = {})
             => call.result.val = RInt(1000)
        /\ call.result.val = SetDistance(network, S, T)
        /\ (network = Path5Z /\ S = {6} /\ T = {5}) => call.result.val = RInt(1000)

\* C2 witness: one of two sources has no path to the target, and the average
\* is (1000 + 4) / 2.
C2_Witness ==
  /\ call.op = "shortest_path_distance"
  /\ network = Path5Z
  /\ call.source_set = {1, 6}
  /\ call.target_set = {5}
  /\ call.result = Ok(RInt(502))

\* C3: for every non-empty set X of nodes of the graph,
\* shortest_path_distance(G, X, X) is exactly 0.
C3_SelfDistanceZero ==
  ( /\ call.op = "shortest_path_distance"
    /\ call.source_set = call.target_set
    /\ call.source_set # {}
    /\ call.source_set \subseteq network.nodes )
  => call.result = Ok(RInt(0))

\* C3 witness: the self-distance of a set of two nodes with no path between
\* them.
C3_Witness ==
  /\ call.op = "shortest_path_distance"
  /\ call.source_set = call.target_set
  /\ call.source_set \subseteq network.nodes
  /\ \E u \in call.source_set, v \in call.source_set : ~Reaches(network, u, v)
  /\ call.result = Ok(RInt(0))

\* C4: for S and T each with a member in the graph, the two directed
\* distances differ by at most the diameter of the subgraph induced by the
\* members of S and T (a disconnected subgraph has infinite diameter and
\* bounds nothing), and by at most the diameter of the graph when it is
\* connected.
C4_DirectionsWithinDiameter ==
  ( /\ call.op = "module_proximity"
    /\ call.module_a \cap network.nodes # {}
    /\ call.module_b \cap network.nodes # {} )
  => /\ call.result.ok
     /\ LET gap == RAbs(RSub(call.result.val[1], call.result.val[2]))
            H == InducedSubgraph(network, call.module_a \cup call.module_b)
        IN  /\ IsConnected(H) => RLe(gap, RInt(Diameter(H)))
            /\ IsConnected(network) => RLe(gap, RInt(Diameter(network)))

\* C4 witness: the two directions differ, on a connected induced subgraph.
C4_Witness ==
  /\ call.op = "module_proximity"
  /\ call.result.ok
  /\ LET H == InducedSubgraph(network, call.module_a \cup call.module_b)
     IN  /\ H.nodes # {}
         /\ IsConnected(H)
         /\ Diameter(H) = 2
         /\ RAbs(RSub(call.result.val[1], call.result.val[2])) = Rat(1, 2)

\* C5: separation_score returns (d(A,B) + d(B,A))/2 - (d(A,A) + d(B,B))/2
\* with d the set-to-set distance; it is 4 for the two ends of the path of 5
\* vertices and positive for the two bridged triangles.
C5_SeparationFormula ==
  call.op = "separation_score" =>
    LET A == call.module_a
        B == call.module_b
        d_between == RDiv(RAdd(SetDistance(network, A, B),
                               SetDistance(network, B, A)), RInt(2))
        d_within == RDiv(RAdd(SetDistance(network, A, A),
                              SetDistance(network, B, B)), RInt(2))
    IN  /\ call.result = Ok(RSub(d_between, d_within))
        /\ (network = Path5 /\ A = {1} /\ B = {5}) => call.result = Ok(RInt(4))
        /\ (network = TwoTriangles /\ A = {1, 2, 3} /\ B = {4, 5, 6})
             => RLt(RInt(0), call.result.val)

\* C5 witness: the two bridged triangles, separated by 5/3.
C5_Witness ==
  /\ call.op = "separation_score"
  /\ network = TwoTriangles
  /\ call.module_a = {1, 2, 3}
  /\ call.module_b = {4, 5, 6}
  /\ call.result = Ok(Rat(5, 3))

C7_TopologyClassTotal ==
  (call.op = "predict_all" /\ call.result.ok) =>
    \A i \in DOMAIN call.result.val :
      call.result.val[i].topology_class
        \in {COMPLEMENTARY, INTERMEDIATE, REDUNDANT}

\* predict_all has returned three records, each with one of the classes.
C7_Witness ==
  /\ call.op = "predict_all"
  /\ call.result.ok
  /\ Len(call.result.val) = 3
  /\ \A i \in DOMAIN call.result.val :
       call.result.val[i].topology_class = REDUNDANT

\* C8: in every record that predict_all returns, prediction_score is the
\* plain sum of the record's tqab, pqab and cqab, with a disease signature
\* (cqab computed) and without one (cqab 0).
C8_ScoreIsPlainSum ==
  (call.op = "predict_all" /\ call.result.ok) =>
    \A i \in DOMAIN call.result.val :
      LET record == call.result.val[i]
          signatures == predictor.disease_signatures
          available == /\ signatures.set
                       /\ call.disease \in DOMAIN signatures.val
      IN  /\ record.prediction_score =
               RealAdd(RealOfRat(record.tqab),
                       RealAdd(record.pqab, record.cqab))
          /\ ~available => record.cqab = RealZero

\* predict_all has returned, with a signature of the disease, a record whose
\* cqab is sqrt(3)/4 and whose score is that sum.
C8_Witness ==
  /\ call.op = "predict_all"
  /\ call.result.ok
  /\ predictor.disease_signatures.set
  /\ call.disease \in DOMAIN predictor.disease_signatures.val
  /\ \E i \in DOMAIN call.result.val :
       /\ call.result.val[i].cqab = [r \in {3} |-> Rat(1, 4)]
       /\ call.result.val[i].prediction_score = [r \in {3} |-> Rat(1, 4)]

\* C9: compute_pqab returns (pqab, z_A, z_B), the z-scores of the proximity
\* of the disease module to the module of drug A and of drug B, with
\* pqab = -(z_A + z_B)/2, which is positive when both z-scores are negative.
C9_ReturnsNegatedMeanZ ==
  call.op = "compute_pqab" =>
    /\ call.result.ok
    /\ LET pqab == call.result.val[1]
           z_A == call.result.val[2]
           z_B == call.result.val[3]
       IN  /\ pqab = RealNeg(RealScale(RealAdd(z_A, z_B), Rat(1, 2)))
           /\ (RealSignOf(z_A) = -1 /\ RealSignOf(z_B) = -1)
                => RealSignOf(pqab) = 1

\* C10: compute_zscore returns 0, without raising, for an empty null
\* distribution and for one of zero standard deviation; otherwise it returns
\* (observed - mean) / std, std being the root of the mean square minus the
\* squared mean, which is negative when observed is below the mean.
C10_ZscoreOrZero ==
  call.op = "compute_zscore" =>
    LET null == call.null_distribution
        n == Len(null)
        z == call.result.val
        mean == RDiv(SeqSum(null), RInt(n))
        squares == [i \in DOMAIN null |-> RMul(null[i], null[i])]
        var == RSub(RDiv(SeqSum(squares), RInt(n)), RMul(mean, mean))
        gap == RSub(call.observed, mean)
    IN  /\ call.result.ok
        /\ n = 0 => z = RealZero
        /\ (n > 0 /\ var = RInt(0)) => z = RealZero
        /\ (n > 0 /\ var # RInt(0)) =>
             /\ Cardinality(DOMAIN z) <= 1
             /\ RMul(RealSquare(z), var) = RMul(gap, gap)
             /\ RealSign(z) = RSign(gap)
             /\ RLt(call.observed, mean) => RealSign(z) = -1
        /\ (call.observed = TestObserved /\ null = TestNull) => RealSign(z) = -1

\* compute_zscore(0, [0, 1, 1]) has returned -sqrt(2): the mean is 2/3 and
\* the standard deviation sqrt(2)/3.
C10_Witness ==
  /\ call.op = "compute_zscore"
  /\ call.observed = RInt(0)
  /\ call.null_distribution = <<RInt(0), RInt(1), RInt(1)>>
  /\ call.result = Ok([r \in {2} |-> RInt(-1)])

\* C11: compute_normalized_proximity returns, for every disease module and
\* drug module, a p_value that is a number between 0 and 1: the fraction of
\* the randomized modules whose distance to the disease module is at most
\* the observed one.
C11_PValueIsFraction ==
  call.op = "compute_normalized_proximity" =>
    /\ call.result.ok
    /\ ~call.result.val[3].nan
    /\ RLe(RInt(0), call.result.val[3].val)
    /\ RLe(call.result.val[3].val, RInt(1))

\* C12: for a module with a gene in the graph, degree_preserving_randomization
\* returns exactly n_random gene sets, each of exactly |M \cap V| distinct
\* members.
C12_SamplesHaveModuleSize ==
  (/\ call.op = "degree_preserving_randomization"
   /\ call.module \cap network.nodes # {}) =>
    /\ call.result.ok
    /\ Len(call.result.val) = call.n_random
    /\ \A i \in DOMAIN call.result.val :
         Cardinality(call.result.val[i])
           = Cardinality(call.module \cap network.nodes)

\* C13: every sample that degree_preserving_randomization returns for a
\* module with a gene in the graph replaces each gene of M \cap V by a gene
\* of that gene's degree bin.  Stated by what follows from it under every
\* binning of the vertices: the samples exist, and each is a non-empty set
\* of at most |M \cap V| genes of the graph.
C13_SamplesKeepDegreeProfile ==
  (/\ call.op = "degree_preserving_randomization"
   /\ call.module \cap network.nodes # {}
   /\ call.n_random > 0) =>
    /\ call.result.ok
    /\ Len(call.result.val) > 0
    /\ \A i \in DOMAIN call.result.val :
         /\ call.result.val[i] # {}
         /\ call.result.val[i] \subseteq network.nodes
         /\ Cardinality(call.result.val[i])
              <= Cardinality(call.module \cap network.nodes)

\* C14: a call of degree_preserving_randomization returns a sequence of
\* sets, and a second call with the same graph, module, n_random and seed
\* returns the identical sequence.
C14_SamplerDeterministic ==
  call.op = "degree_preserving_randomization" =>
    /\ call.result.ok
    /\ (call.module \cap network.nodes # {} /\ call.n_random > 0)
         => call.result.val # <<>>
    /\ degree_preserving_randomization(
         network, call.module, call.n_random, call.seed) = call.result

(***************************************************************************)
(* The rank correlation of section 4.4, from integers: twice the average   *)
(* rank of a value is 2 * #smaller + #equal + 1, the mean of these over n  *)
(* genes is n + 1, and rho is RankCov(x, y) / sqrt(RankCov(x, x) *         *)
(* RankCov(y, y)), undefined when x or y is constant.                      *)
(***************************************************************************)
TwiceRank(x, g) ==
  2 * Cardinality({h \in DOMAIN x : RLt(x[h], x[g])})
    + Cardinality({h \in DOMAIN x : x[h] = x[g]}) + 1

RECURSIVE SumOf(_, _)
SumOf(f, D) ==
  IF D = {} THEN 0
  ELSE LET d == CHOOSE e \in D : TRUE IN f[d] + SumOf(f, D \ {d})

\* Four times the covariance sum of the average ranks of x and y.
RankCov(x, y) ==
  LET n == Cardinality(DOMAIN x)
  IN  SumOf([g \in DOMAIN x |-> TwiceRank(x, g) * TwiceRank(y, g)], DOMAIN x)
        - n * (n + 1) * (n + 1)

\* The disease signature and the signed vector of the drug on their common
\* genes (a gene in both sets of the drug counts as down).
CommonSignature(signature, up, down) ==
  [g \in DOMAIN signature \cap (up \cup down) |-> signature[g]]

CommonDrugVector(signature, up, down) ==
  [g \in DOMAIN signature \cap (up \cup down) |->
     IF g \in down THEN RInt(-1) ELSE RInt(1)]

\* c is -rho(x, y), rho being defined.
IsNegatedRho(c, x, y) ==
  /\ Cardinality(DOMAIN c) <= 1
  /\ RMul(RealSquare(c), RInt(RankCov(x, x) * RankCov(y, y)))
       = RInt(RankCov(x, y) * RankCov(x, y))
  /\ RealSign(c) = -RSign(RInt(RankCov(x, y)))

\* C15, as stated: transcriptional_similarity returns 0 when fewer than 3
\* genes are common to the signature and the drug's signed vector, and
\* otherwise -rho, the negated Spearman correlation (average ranks) over the
\* common genes, which requires rho to be defined.
C15_ZeroOrNegatedRho ==
  call.op = "transcriptional_similarity" =>
    LET x == CommonSignature(call.disease_signature, call.drug_signature_up,
                             call.drug_signature_down)
        y == CommonDrugVector(call.disease_signature, call.drug_signature_up,
                              call.drug_signature_down)
        c == call.result.val
    IN  /\ Cardinality(DOMAIN x) < 3 => c = RealZero
        /\ Cardinality(DOMAIN x) >= 3 =>
             /\ RankCov(x, x) # 0
             /\ RankCov(y, y) # 0
             /\ IsNegatedRho(c, x, y)

\* C15, amended: transcriptional_similarity returns 0 when fewer than 3 genes
\* are common, and also when the signature or the drug's signed vector is
\* constant on the common genes (rho undefined); otherwise it returns -rho
\* over the common genes.
C15_ZeroOrNegatedRhoWhereDefined ==
  call.op = "transcriptional_similarity" =>
    LET x == CommonSignature(call.disease_signature, call.drug_signature_up,
                             call.drug_signature_down)
        y == CommonDrugVector(call.disease_signature, call.drug_signature_up,
                              call.drug_signature_down)
        c == call.result.val
        defined == RankCov(x, x) # 0 /\ RankCov(y, y) # 0
    IN  /\ Cardinality(DOMAIN x) < 3 => c = RealZero
        /\ (Cardinality(DOMAIN x) >= 3 /\ ~defined) => c = RealZero
        /\ (Cardinality(DOMAIN x) >= 3 /\ defined) => IsNegatedRho(c, x, y)

\* transcriptional_similarity has returned sqrt(3)/2 for the signature
\* {G1: 2, G2: 1.5, G3: -1} and the drug up = {G3}, down = {G1, G2}.
C15_Witness ==
  /\ call.op = "transcriptional_similarity"
  /\ call.disease_signature = <<RInt(2), Rat(3, 2), RInt(-1)>>
  /\ call.drug_signature_up = {3}
  /\ call.drug_signature_down = {1, 2}
  /\ call.result = Ok([r \in {3} |-> Rat(1, 2)])

PredictAllOnKnownDisease ==
  /\ call.op = "predict_all"
  /\ predictor.disease_modules.set
  /\ predictor.drug_modules.set
  /\ call.disease \in DOMAIN predictor.disease_modules.val

DrugPosition(name) ==
  CHOOSE i \in DOMAIN predictor.drug_modules.val :
    predictor.drug_modules.val[i].name = name

NumDrugs == Len(predictor.drug_modules.val)

PositionPairs == {p \in (1..NumDrugs) \X (1..NumDrugs) : p[1] < p[2]}

\* The number of pairs enumerated before the pair of positions p.
PairsBefore(p) ==
  Cardinality({q \in PositionPairs :
                 q[1] < p[1] \/ (q[1] = p[1] /\ q[2] < p[2])})

\* The pairs of positions of the records of a result.
RecordPairs(records) ==
  {<<DrugPosition(records[i].drug_a), DrugPosition(records[i].drug_b)>> :
     i \in DOMAIN records}

\* C17: with no cap, predict_all over n drugs returns exactly n(n-1)/2
\* records: one for every unordered pair of distinct drugs, none pairing a
\* drug with itself, none repeated, drug_a before drug_b in enumeration
\* order.
C17_EveryPairOnce ==
  (PredictAllOnKnownDisease /\ ~call.max_pairs.set) =>
    /\ call.result.ok
    /\ Len(call.result.val) = (NumDrugs * (NumDrugs - 1)) \div 2
    /\ RecordPairs(call.result.val) = PositionPairs
    /\ \A i \in DOMAIN call.result.val :
         call.result.val[i].drug_a # call.result.val[i].drug_b

\* C18: with max_pairs = N, N >= 0, predict_all returns exactly
\* min(N, n(n-1)/2) records, those of the first N pairs in enumeration order.
C18_CapKeepsFirstPairs ==
  (PredictAllOnKnownDisease /\ call.max_pairs.set) =>
    /\ call.result.ok
    /\ Len(call.result.val)
         = Min({call.max_pairs.val, (NumDrugs * (NumDrugs - 1)) \div 2})
    /\ RecordPairs(call.result.val)
         = {p \in PositionPairs : PairsBefore(p) < call.max_pairs.val}

\* The fields of a record of predict_all that are neither names nor scores.
FlagFields(record) ==
  DOMAIN record \ {"disease", "drug_a", "drug_b", "tqab", "pqab", "cqab",
                   "prediction_score", "topology_class",
                   "pqa", "pqb", "cqa", "cqb"}

\* C19: predict_all emits exactly one record for every pair it enumerates,
\* also when a stage fails for a pair, and every record carries a flag that
\* marks such a failure.
C19_NoPairDropped ==
  PredictAllOnKnownDisease =>
    LET enumerated ==
          IF call.max_pairs.set /\ call.max_pairs.val # 0
            THEN {p \in PositionPairs : PairsBefore(p) < call.max_pairs.val}
            ELSE PositionPairs
    IN  /\ call.result.ok
        /\ Len(call.result.val) = Cardinality(enumerated)
        /\ RecordPairs(call.result.val) = enumerated
        /\ \A i \in DOMAIN call.result.val :
             FlagFields(call.result.val[i]) # {}

\* The drug names in lexicographic order.
SortedDrugNames == <<"drug_a", "drug_b", "drug_c", "drug_d">>

NameRank(name) == CHOOSE i \in DOMAIN SortedDrugNames : SortedDrugNames[i] = name

\* (drug_a, drug_b) of r is lexicographically before that of t.
PairLexLess(r, t) ==
  \/ NameRank(r.drug_a) < NameRank(t.drug_a)
  \/ /\ r.drug_a = t.drug_a
     /\ NameRank(r.drug_b) < NameRank(t.drug_b)

\* C20: the records that predict_all returns are in descending order of
\* prediction_score, and records of equal prediction_score are in
\* lexicographic order of (drug_a, drug_b).
C20_SortedWithLexicographicTies ==
  (call.op = "predict_all" /\ call.result.ok) =>
    \A i \in DOMAIN call.result.val, j \in DOMAIN call.result.val :
      i < j =>
        LET r == call.result.val[i]
            t == call.result.val[j]
        IN  /\ ~RealLt(r.prediction_score, t.prediction_score)
            /\ r.prediction_score = t.prediction_score => PairLexLess(r, t)

\* The pairs of positions that predict_all enumerates under the cap of the
\* latest call, as the code applies it.
EnumeratedPositionPairs ==
  IF call.max_pairs.set /\ call.max_pairs.val # 0
    THEN {p \in PositionPairs : PairsBefore(p) < call.max_pairs.val}
    ELSE PositionPairs

\* The records of a returned table, as a set.
RecordSet(table) ==
  {table[i] : i \in DOMAIN table}

\* C21: a run of predict_all over at least one pair returns a record
\* sequence, and every other run on the same graph, modules, signatures, seed
\* and n_randomizations returns the same records with the same values. (The
\* order of records of equal score is the sort algorithm's and is not
\* compared.)
C21_RunsIdentical ==
  (PredictAllOnKnownDisease /\ EnumeratedPositionPairs # {}) =>
    /\ call.result.ok
    /\ \A other \in predict_all(network, predictor, call.disease, call.max_pairs) :
         /\ other.ok
         /\ Len(other.val) = Len(call.result.val)
         /\ RecordSet(other.val) = RecordSet(call.result.val)

\* The genes, up and down, of the drug at a position of the drug set.
DrugModuleAt(i) ==
  predictor.drug_modules.val[i].up \cup predictor.drug_modules.val[i].down

\* A module of the pair of positions p, or the disease module, has no member
\* in the graph.
EmptyOverlap(p) ==
  \/ DrugModuleAt(p[1]) \cap network.nodes = {}
  \/ DrugModuleAt(p[2]) \cap network.nodes = {}
  \/ predictor.disease_modules.val[call.disease] \cap network.nodes = {}

\* C22: when a module of an enumerated pair has no member in the graph,
\* predict_all does not abort, and the record of the pair has tqab, pqab,
\* cqab and prediction_score 0 and carries a flag.
C22_EmptyOverlapZeroRecord ==
  (/\ PredictAllOnKnownDisease
   /\ \E p \in EnumeratedPositionPairs : EmptyOverlap(p)) =>
    /\ call.result.ok
    /\ \A p \in EnumeratedPositionPairs :
         EmptyOverlap(p) =>
           \E i \in DOMAIN call.result.val :
             LET record == call.result.val[i]
             IN  /\ DrugPosition(record.drug_a) = p[1]
                 /\ DrugPosition(record.drug_b) = p[2]
                 /\ record.tqab = RInt(0)
                 /\ record.pqab = RealZero
                 /\ record.cqab = RealZero
                 /\ record.prediction_score = RealZero
                 /\ FlagFields(record) # {}

\* The stage of the pair at position k of drug_pairs in a frame of
\* predict_all: emitted when the table is returned, composed when its record
\* is in predictions, and otherwise the last batch that has stored a result
\* for it.
Stage(frame, k) ==
  IF frame.pc = "returned" THEN "emitted"
  ELSE IF k <= Len(frame.predictions) THEN "composed"
  ELSE IF frame.drug_pairs[k] \in DOMAIN frame.cqab_results THEN "C-done"
  ELSE IF frame.drug_pairs[k] \in DOMAIN frame.pqab_results THEN "P-done"
  ELSE IF frame.drug_pairs[k] \in DOMAIN frame.tqab_results THEN "T-done"
  ELSE "pending"

\* Each stage with the stage that follows it.
StageOrder ==
  {<<"pending", "T-done">>, <<"T-done", "P-done">>, <<"P-done", "C-done">>,
   <<"C-done", "composed">>, <<"composed", "emitted">>}

\* A signature of the disease of the call is set.
SignatureOfDiseaseSet ==
  /\ predictor.disease_signatures.set
  /\ call.disease \in DOMAIN predictor.disease_signatures.val

\* A step of predict_all moves each pair from stage to stage by the pairs
\* of stages in order, or leaves it where it is.
StagesStepBy(order) ==
  (call.op = "predict_all_steps" /\ call'.op = "predict_all_steps") =>
    \A k \in DOMAIN call.drug_pairs :
      \/ Stage(call', k) = Stage(call, k)
      \/ <<Stage(call, k), Stage(call', k)>> \in order

\* C24, as stated: every step of predict_all leaves a pair in its stage or
\* moves it to the next of pending, T-done, P-done, C-done, composed,
\* emitted; no stage is skipped or revisited.
C24_StagesInOrder ==
  [][StagesStepBy(StageOrder)]_vars

\* C24, amended: the same, except that a pair goes from P-done straight to
\* composed when no signature of the disease is set, and only then.
C24_StagesInOrderOrNoSignature ==
  [][StagesStepBy(IF SignatureOfDiseaseSet
                    THEN StageOrder
                    ELSE StageOrder \cup {<<"P-done", "composed">>})]_vars

\* predict_all has returned the records of two or more pairs, with a
\* signature of the disease set.
C24_Witness ==
  /\ call.op = "predict_all_steps"
  /\ call.pc = "returned"
  /\ SignatureOfDiseaseSet
  /\ Len(call.drug_pairs) >= 2
  /\ DOMAIN call.cqab_results = {call.drug_pairs[k] : k \in DOMAIN call.drug_pairs}
  /\ \A k \in DOMAIN call.drug_pairs : Stage(call, k) = "emitted"

\* A step of the pipeline is the turn of its loop for a disease.
DiseaseTurn ==
  /\ call.op = "run_pipeline"
  /\ call'.op = "run_pipeline"
  /\ call'.i = call.i + 1

\* The disease of the turn and the record the turn has logged.
TurnDisease == call.diseases[call.i]
TurnRecord == call'.log[Len(call'.log)]

\* predict_all returns a table for the disease of the turn.
TurnPredictionSucceeds ==
  \A outcome \in predict_all(network, predictor, TurnDisease, call.max_pairs) :
    outcome.ok

\* The turn has written the whole table of the disease to its file.
TurnFileWritten ==
  /\ PredictionsFile(TurnDisease) \in DOMAIN files'
  /\ files'[PredictionsFile(TurnDisease)].complete
  /\ Ok(files'[PredictionsFile(TurnDisease)].rows)
       \in predict_all(network, predictor, TurnDisease, call.max_pairs)

\* The diseases before position i have one log record each, in list order,
\* and the pipeline completes only after the last.
DiseasesInListOrder ==
  call.op = "run_pipeline" =>
    /\ Len(call.log) = call.i - 1
    /\ \A j \in DOMAIN call.log : call.log[j].disease = call.diseases[j]
    /\ call.pc = "complete" => Len(call.log) = Len(call.diseases)

\* C26, as stated: a turn that logs an error writes no file, the diseases
\* are processed in list order whatever the turns before did, and a turn
\* whose prediction succeeds writes the file of its disease.
C26_ErrorsIsolated ==
  /\ []DiseasesInListOrder
  /\ [][DiseaseTurn =>
          /\ ~TurnPredictionSucceeds => TurnRecord.level = "error"
          /\ TurnRecord.level = "error" => files' = files
          /\ TurnPredictionSucceeds => TurnFileWritten]_vars

\* C26, amended: a turn whose prediction raises logs an error and writes no
\* file; a turn whose save raises logs an error and leaves the files as they
\* were or the file of its disease incomplete; every other turn writes the
\* file of its disease; the diseases are processed in list order whatever
\* the turns before did.
C26_ErrorsIsolatedSaveMayTruncate ==
  /\ []DiseasesInListOrder
  /\ [][DiseaseTurn =>
          /\ ~TurnPredictionSucceeds =>
               (TurnRecord.level = "error" /\ files' = files)
          /\ TurnRecord.level = "error" =>
               \/ files' = files
               \/ /\ DOMAIN files' = DOMAIN files \cup {PredictionsFile(TurnDisease)}
                  /\ ~files'[PredictionsFile(TurnDisease)].complete
                  /\ \A path \in DOMAIN files :
                       path # PredictionsFile(TurnDisease) => files'[path] = files[path]
          /\ TurnRecord.level # "error" => TurnFileWritten]_vars

\* The pipeline has completed on two diseases: the first has failed and the
\* file of the second is written.
C26_Witness ==
  /\ call.op = "run_pipeline"
  /\ call.pc = "complete"
  /\ Len(call.diseases) = 2
  /\ call.log[1].level = "error"
  /\ call.log[2].level = "info"
  /\ DOMAIN files = {PredictionsFile(call.diseases[2])}
  /\ files[PredictionsFile(call.diseases[2])].complete

\* The rows of the latest build that are not self-loops.
ContributingRows ==
  {k \in DOMAIN call.rows : call.rows[k].gene_a # call.rows[k].gene_b}

\* The undirected graph of the rows of the latest build: self-loop rows
\* dropped, rows of the same unordered pair merged.
RowsGraph ==
  [nodes |-> UNION {{call.rows[k].gene_a, call.rows[k].gene_b} : k \in ContributingRows},
   edges |-> {{call.rows[k].gene_a, call.rows[k].gene_b} : k \in ContributingRows}]

\* The connected components of RowsGraph.
RowsComponents ==
  {{t \in RowsGraph.nodes : Reaches(RowsGraph, s, t)} : s \in RowsGraph.nodes}

\* C23: build on a non-empty list of rows returns a largest connected
\* component of the graph of the rows: its nodes are a component of the
\* greatest size, its edges the edges among them, it is connected and has no
\* self-loop, and the sources list of each edge holds the source of every
\* row of that pair.
C23_LargestComponent ==
  (call.op = "build" /\ call.rows # <<>>) =>
    /\ call.result.ok
    /\ Range(call.result.val.nodes) \in RowsComponents
    /\ \A other \in RowsComponents :
         Cardinality(other) <= Len(call.result.val.nodes)
    /\ DOMAIN call.result.val.sources
         = {e \in RowsGraph.edges : e \subseteq Range(call.result.val.nodes)}
    /\ \A e \in DOMAIN call.result.val.sources : Cardinality(e) = 2
    /\ IsConnected([nodes |-> Range(call.result.val.nodes),
                    edges |-> DOMAIN call.result.val.sources])
    /\ \A k \in ContributingRows :
         {call.rows[k].gene_a, call.rows[k].gene_b} \in DOMAIN call.result.val.sources
           => call.rows[k].source
                \in Range(call.result.val.sources[{call.rows[k].gene_a, call.rows[k].gene_b}])

\* C29: merge_configs returns a Config over a dictionary that is new, and
\* leaves every dictionary of base, the nested sections included, and every
\* attribute of base as it was.
C29_BaseUnchanged ==
  call.op = "merge_configs" =>
    /\ call.after.result.ok
    /\ call.after.result.val.config \notin DOMAIN call.heap
    /\ \A a \in DOMAIN call.heap : call.after.heap[a] = call.heap[a]
    /\ ConfigOf(call.after.heap, call.base.config) = call.base

\* C30: a call of download_file that returns True leaves the file written
\* completely by a request that finished without error; a call makes at most
\* retry_attempts requests, and one that returns False has made
\* retry_attempts requests, all failed.
C30_TrueOnlyAfterDownload ==
  (call.op = "download_file" /\ call.pc = "returned") =>
    /\ call.requests <= call.retry_attempts
    /\ call.result.val =>
         /\ call.output_path \in DOMAIN files
         /\ files[call.output_path].complete
    /\ ~call.result.val => call.requests = call.retry_attempts

\* The z-score that a record reports for one of its two drugs.
ReportedZ(record, name) ==
  IF record.drug_a = name THEN record.pqa ELSE record.pqb

\* C25: when a drug is in two enumerated pairs, predict_all reports its
\* z-score in the record of each, and the same z-score in every record of a
\* pair with that drug, as pqa or as pqb.
C25_DrugZShared ==
  (/\ PredictAllOnKnownDisease
   /\ \E p \in EnumeratedPositionPairs, q \in EnumeratedPositionPairs :
        p # q /\ {p[1], p[2]} \cap {q[1], q[2]} # {}) =>
    /\ call.result.ok
    /\ \A i \in DOMAIN call.result.val, j \in DOMAIN call.result.val :
         \A name \in {call.result.val[i].drug_a, call.result.val[i].drug_b}
                       \cap {call.result.val[j].drug_a, call.result.val[j].drug_b} :
           ReportedZ(call.result.val[i], name) = ReportedZ(call.result.val[j], name)

\* C27: predict_all raises ValueError exactly when the disease modules or the
\* drug modules have not been set or the disease is not a key of the disease
\* modules, whatever the disease signatures are; and a call of predict_all
\* leaves the predictor's modules, signatures, seed and network as they were.
C27_ValueErrorIffUnset ==
  /\ [](call.op = "predict_all" =>
          ((~call.result.ok /\ call.result.exc = "ValueError")
             <=> \/ ~predictor.disease_modules.set
                 \/ ~predictor.drug_modules.set
                 \/ call.disease \notin DOMAIN predictor.disease_modules.val))
  /\ [][call'.op = "predict_all" =>
          (predictor' = predictor /\ network' = network)]_vars

\* predict_all has raised ValueError on a predictor whose drug modules and
\* disease signatures are set and whose disease modules lack the disease.
C27_Witness ==
  /\ call.op = "predict_all"
  /\ ~call.result.ok
  /\ call.result.exc = "ValueError"
  /\ predictor.disease_modules.set
  /\ predictor.drug_modules.set
  /\ predictor.disease_signatures.set
  /\ call.disease \notin DOMAIN predictor.disease_modules.val

\* C28: with disease and drug modules set and a known disease, predict_all
\* returns a table, of no rows when the drug set has no pair, and does not
\* raise.
C28_ReturnsTable ==
  PredictAllOnKnownDisease =>
    /\ call.result.ok
    /\ NumDrugs < 2 => Len(call.result.val) = 0

=============================================================================
